---- MODULE Spec2Model ----
(***************************************************************************)
(* ERA5 consolidation pipeline (scripts/a0001_wrangle_era5_data.py and its *)
(* variants): catalog scan, ingestion index, work planner, batched         *)
(* transform and sink writer, modelled as a state machine.                 *)
(*                                                                         *)
(* Text is modelled as a sequence of one-character strings, so that        *)
(* formatting, splitting, joining and integer parsing are computed the way *)
(* the scripts compute them.                                               *)
(***************************************************************************)
EXTENDS Integers, Sequences, FiniteSets, TLC

VARIABLES
    input_dir_exists,    \* input_dir.exists()
    dir,                 \* the files of input_dir: filename -> size in bytes
    decoder,             \* what the GRIB decoder does with each file
    sink,                \* the output file era5_weather_data_long.csv.gz
    pc,                  \* position of the running script
    run,                 \* number of the run (1 = first)
    years_available,     \* main: result of discover_available_data
    variables_available,
    file_count,          \* discover_available_data: file_count
    log,                 \* filenames the scan printed a "Skipping file" line for
    existing_data,       \* process_all_data: the existing-key index
    index_notice,        \* what get_existing_data_index printed in this run
    files_processed,
    files_skipped,
    files_missing,
    total_rows_added,
    files_to_process,    \* the queue
    batch_start,         \* the loop variable i of the batch loop
    future_to_file,      \* units whose future the dict future_to_file refers to
    running,             \* units a worker is still decoding
    futures,             \* units of the current batch whose result is not collected
    batch_results,       \* decoded tables collected for the current batch
    df_batch,            \* the concatenated batch being written
    chunk_start,         \* loop variable of the chunked write
    data_by_month,       \* monthly script: result of its discover_available_data
    log_monthly,         \* monthly script: filenames its scan printed a line for
    df_decoded,          \* load_grib_to_long_format: the decoded table after reset_index
    args,                \* load_grib_to_long_format: variable_name, year, month
    df_long,             \* what each script's load_grib_to_long_format returned for it
    seq,                 \* sequential script: its sink and the locals of its run
    other,               \* a second process of the parallel script: its locals
    metadata_file,       \* monthly script: processing_metadata.json
    outputs,             \* monthly script: the files of processed/, by month key
    processed_months,    \* monthly script, main: the set processed_months
    month_i,             \* monthly script, main: position in sorted(data_by_month.keys())
    total_processed,     \* monthly script, main
    total_files,         \* monthly script, main
    handled,             \* history: what this run did with each month it came to
    metadata_at_start,   \* history: processed_months as the run loaded it
    interrupted,         \* history: the months whose write a run died in, with the run
    accepted,            \* history: the parses the last scan accepted
    made,                \* history: triples the download script built a name for
    sink_at_start,       \* history: the sink when the current run started
    committed,           \* history: units whose rows the current run wrote in full
    prev,                \* history: how the previous run ended
    killed,              \* history: some run was killed between two steps
    write_died,          \* history: some run died inside a write
    stable,              \* history: the decoder never changed its answer
    batches,             \* history: every batch a run started to write
    failed               \* history: the units a run queued and got no rows for

envVars   == <<input_dir_exists, dir, decoder>>
scanVars  == <<years_available, variables_available, file_count, log, accepted>>
tfVars    == <<df_decoded, args, df_long, seq, other>>
mrunVars  == <<metadata_file, outputs, processed_months, month_i, total_processed,
               total_files, handled, metadata_at_start, interrupted>>
monthVars == <<data_by_month, log_monthly, tfVars, mrunVars>>
planVars  == <<existing_data, index_notice, files_skipped, files_to_process>>
loopVars  == <<files_processed, files_missing, total_rows_added, batch_start,
               future_to_file, running, futures, batch_results, df_batch,
               chunk_start>>
histVars  == <<sink_at_start, committed, prev, killed, write_died, stable, batches,
               failed>>
vars == <<envVars, sink, pc, run, scanVars, monthVars, planVars, loopVars,
          made, histVars>>

----------------------------------------------------------------------------
(* Bounds of the model *)

MaxFiles == 3           \* files in the source directory of a pipeline run
MaxRuns == 2            \* consecutive runs of the pipeline
MaxScanFiles == 1       \* files in the directory of the scanner specification
MaxGridRows == 2        \* rows of a decoded table

(* Program constants *)

currentYear == 2026     \* datetime.now().year
MIN_FILE_SIZE == 1024   \* check_file_exists: st_size > 1024
BATCH_SIZE == 2         \* 20 in the script; scaled
CHUNK_SIZE == 2         \* 50000 in the script; scaled
FIRST_YEAR == 1900      \* lowest year the scan accepts
FIRST_DOWNLOAD_YEAR == 2024   \* first year the download script asks for

----------------------------------------------------------------------------
(* Text *)

Digits == {"0", "1", "2", "3", "4", "5", "6", "7", "8", "9"}

DigitVal == [c \in Digits |->
    CASE c = "0" -> 0 [] c = "1" -> 1 [] c = "2" -> 2 [] c = "3" -> 3
      [] c = "4" -> 4 [] c = "5" -> 5 [] c = "6" -> 6 [] c = "7" -> 7
      [] c = "8" -> 8 [] c = "9" -> 9]

DigitChar == <<"0", "1", "2", "3", "4", "5", "6", "7", "8", "9">>

\* Code point of the characters the model uses (Python compares str by code point).
Ord(c) ==
    CASE c = " " -> 32 [] c = "+" -> 43 [] c = "-" -> 45 [] c = "." -> 46
      [] c \in Digits -> 48 + DigitVal[c]
      [] c = "_" -> 95 [] c = "a" -> 97 [] c = "b" -> 98 [] c = "d" -> 100
      [] c = "e" -> 101 [] c = "g" -> 103 [] c = "i" -> 105 [] c = "m" -> 109
      [] c = "p" -> 112 [] c = "r" -> 114 [] c = "t" -> 116 [] c = "x" -> 120
      [] OTHER -> 127

ERA5 == <<"e", "r", "a", "5">>
GRIB == <<".", "g", "r", "i", "b">>
US   == <<"_">>

\* str(n) for n >= 0
RECURSIVE FormatInt(_)
FormatInt(n) ==
    IF n < 10 THEN <<DigitChar[n + 1]>>
    ELSE FormatInt(n \div 10) \o <<DigitChar[(n % 10) + 1]>>

\* f"{month:02d}"
Format02d(n) == IF n < 10 THEN <<"0">> \o FormatInt(n) ELSE FormatInt(n)

\* f"era5_{year}_{month:02d}_{variable}.grib"
MakeFilename(year, month, variable) ==
    ERA5 \o US \o FormatInt(year) \o US \o Format02d(month) \o US \o variable \o GRIB

\* f"{year}_{month:02d}"
MonthKey(year, month) == FormatInt(year) \o US \o Format02d(month)

\* filename.replace('.grib', '')
RECURSIVE RemoveGrib(_)
RemoveGrib(s) ==
    IF s = <<>> THEN <<>>
    ELSE IF Len(s) >= 5 /\ SubSeq(s, 1, 5) = GRIB
         THEN RemoveGrib(SubSeq(s, 6, Len(s)))
         ELSE <<Head(s)>> \o RemoveGrib(Tail(s))

\* s.find('_', from - 1) + 1: the first position of '_' at or after from, or 0
RECURSIVE FindUS(_, _)
FindUS(s, from) ==
    IF from > Len(s) THEN 0
    ELSE IF s[from] = "_" THEN from
    ELSE FindUS(s, from + 1)

\* s.split('_')
RECURSIVE SplitUS(_)
SplitUS(s) ==
    IF FindUS(s, 1) = 0 THEN <<s>>
    ELSE <<SubSeq(s, 1, FindUS(s, 1) - 1)>>
         \o SplitUS(SubSeq(s, FindUS(s, 1) + 1, Len(s)))

\* '_'.join(parts), parts not empty
RECURSIVE JoinUS(_)
JoinUS(parts) ==
    IF Len(parts) = 1 THEN parts[1]
    ELSE parts[1] \o US \o JoinUS(Tail(parts))

\* s.strip() for blanks
RECURSIVE Strip(_)
Strip(s) ==
    IF s = <<>> THEN s
    ELSE IF s[1] = " " THEN Strip(Tail(s))
    ELSE IF s[Len(s)] = " " THEN Strip(SubSeq(s, 1, Len(s) - 1))
    ELSE s

RECURSIVE DigitsValue(_)
DigitsValue(s) ==
    IF s = <<>> THEN 0
    ELSE 10 * DigitsValue(SubSeq(s, 1, Len(s) - 1)) + DigitVal[s[Len(s)]]

\* int(s): blanks around it and one sign are allowed; anything else is a ValueError
ParseInt(s) ==
    LET t    == Strip(s)
        sgn  == t # <<>> /\ t[1] \in {"+", "-"}
        body == IF sgn THEN Tail(t) ELSE t
    IN  IF body # <<>> /\ \A k \in 1..Len(body) : body[k] \in Digits
        THEN [ok |-> TRUE,
              val |-> IF sgn /\ t[1] = "-" THEN 0 - DigitsValue(body)
                      ELSE DigitsValue(body)]
        ELSE [ok |-> FALSE, val |-> 0]

\* a < b for str
RECURSIVE LexLess(_, _)
LexLess(a, b) ==
    IF b = <<>> THEN FALSE
    ELSE IF a = <<>> THEN TRUE
    ELSE IF a[1] # b[1] THEN Ord(a[1]) < Ord(b[1])
    ELSE LexLess(Tail(a), Tail(b))

MinInt(S) == CHOOSE m \in S : \A o \in S : m <= o

MinStr(S) == CHOOSE m \in S : \A o \in S \ {m} : LexLess(m, o)

\* sorted(list(S)) for a set of int
RECURSIVE SortedInts(_)
SortedInts(S) ==
    IF S = {} THEN <<>>
    ELSE <<MinInt(S)>> \o SortedInts(S \ {MinInt(S)})

\* Mutant: the strings are put in descending order.
RECURSIVE SortedStrs_descending(_)
SortedStrs_descending(S) ==
    IF S = {} THEN <<>>
    ELSE SortedStrs_descending(S \ {MinStr(S)}) \o <<MinStr(S)>>

\* sorted(list(S)) for a set of str
RECURSIVE SortedStrs(_)
SortedStrs(S) ==
    IF S = {} THEN <<>>
    ELSE <<MinStr(S)>> \o SortedStrs(S \ {MinStr(S)})

Range(q) == {q[k] : k \in DOMAIN q}

----------------------------------------------------------------------------
(* Catalog Scanner *)

\* input_dir.glob("era5_*.grib")
GlobMatch(name) ==
    /\ Len(name) >= Len(ERA5) + 1 + Len(GRIB)
    /\ SubSeq(name, 1, 5) = ERA5 \o US
    /\ SubSeq(name, Len(name) - 4, Len(name)) = GRIB

\* Mutant: the variable is the fourth segment alone.
RejoinVariable_first(parts) == parts[4]

\* variable = '_'.join(parts[3:])
RejoinVariable(parts) == JoinUS(SubSeq(parts, 4, Len(parts)))

\* 1900 <= year <= currentYear and 1 <= month <= 12
ValidRange(year, month) ==
    /\ FIRST_YEAR <= year /\ year <= currentYear
    /\ 1 <= month /\ month <= 12

\* The body of the scan loop for one filename: what it does with the file.
ParseName(filename) ==
    LET parts == SplitUS(RemoveGrib(filename))
        none  == [verdict |-> "unexpected format", name |-> filename,
                  year |-> 0, month |-> 0, variable |-> <<>>]
    IN  IF Len(parts) >= 4 /\ parts[1] = ERA5
        THEN LET y == ParseInt(parts[2])
                 m == ParseInt(parts[3])
             IN  IF ~(y.ok /\ m.ok)
                 THEN [none EXCEPT !.verdict = "invalid format"]
                 ELSE [verdict |-> IF ValidRange(y.val, m.val) THEN "accepted"
                                   ELSE "invalid year/month",
                       name |-> filename, year |-> y.val, month |-> m.val,
                       variable |-> RejoinVariable(parts)]
        ELSE none

Globbed(d) == {f \in DOMAIN d : GlobMatch(f)}

\* Which rejections the long-format scan prints a line for: all three branches.
Logged(p) == p.verdict # "accepted"

\* Which rejections the monthly scan prints a line for: none (it only continues).
LoggedMonthly(p) == FALSE

\* a0001 discover_available_data()
discover_available_data(exists, d) ==
    IF ~exists
    THEN [years |-> <<>>, variables |-> <<>>, file_count |-> 0,
          log |-> {}, accepted |-> {}]
    ELSE LET parses == {ParseName(f) : f \in Globbed(d)}
             acc    == {p \in parses : p.verdict = "accepted"}
         IN  [years     |-> SortedInts({p.year : p \in acc}),
              variables |-> SortedStrs({p.variable : p \in acc}),
              file_count |-> Cardinality(acc),
              log       |-> {p.name : p \in {q \in parses : Logged(q)}},
              accepted  |-> acc]

\* monthly discover_available_data(): the loop over one directory listing
RECURSIVE MonthlyFold(_, _)
MonthlyFold(listing, acc) ==
    IF listing = <<>> THEN acc
    ELSE LET p == ParseName(Head(listing))
             k == MonthKey(p.year, p.month)
             old == IF k \in DOMAIN acc THEN acc[k]
                    ELSE [year |-> p.year, month |-> p.month, variables |-> <<>>]
         IN  IF p.verdict = "accepted"
             THEN MonthlyFold(Tail(listing),
                     (k :> [old EXCEPT !.variables = (p.variable :> p.name) @@ @])
                        @@ acc)
             ELSE MonthlyFold(Tail(listing), acc)

discover_available_data_monthly(exists, listing) ==
    IF ~exists THEN <<>> ELSE MonthlyFold(listing, <<>>)

\* The orders in which glob may return a set of files.
Listings(S) ==
    {q \in [1..Cardinality(S) -> S] : \A a, b \in DOMAIN q : a # b => q[a] # q[b]}

----------------------------------------------------------------------------
(* The output sink *)

NoSink == [exists |-> FALSE, rows |-> <<>>]

NoPrev == [outcome |-> "none", committed |-> {}]

\* The three scripts that define load_grib_to_long_format
Scripts == {"a0001", "monthly", "a000"}

\* Nothing decoded, nothing returned
NoTable == [status |-> "none", columns |-> <<>>, rows |-> <<>>]
NotRun  == [status |-> "none", value_vars |-> <<>>, time_col |-> "", rows |-> <<>>,
            removed |-> 0]

\* The sequential script before its main() starts.
SeqIdle ==
    [pc |-> "none", sink |-> [exists |-> FALSE, rows |-> <<>>],
     existing_data |-> {}, cs |-> <<>>, i |-> 0, batch_data |-> <<>>,
     files_processed |-> 0, files_skipped |-> 0, files_missing |-> 0,
     total_rows_added |-> 0]

\* A second process of the parallel script before its main() starts.
OtherIdle ==
    [pc |-> "none", existing_data |-> {}, files_to_process |-> <<>>,
     batch_start |-> 0, df_batch |-> <<>>, chunk_start |-> 0,
     files_processed |-> 0, files_skipped |-> 0]

TransformIdle ==
    /\ df_decoded = NoTable
    /\ args = [variable_name |-> <<>>, year |-> 0, month |-> 0]
    /\ df_long = [s \in Scripts |-> NotRun]
    /\ seq = SeqIdle
    /\ other = OtherIdle

\* processing_metadata.json is absent
NoMetadata == [exists |-> FALSE, processed_months |-> {}]

\* Values of the monthly run's variables before its main() starts.
MonthlyIdle ==
    /\ metadata_file = NoMetadata /\ outputs = <<>>
    /\ processed_months = {} /\ month_i = 0
    /\ total_processed = 0 /\ total_files = 0
    /\ handled = <<>> /\ metadata_at_start = {}
    /\ interrupted = {}

\* Values of the run's variables before main() starts.
RunIdle ==
    /\ years_available = <<>> /\ variables_available = <<>>
    /\ file_count = 0 /\ log = {} /\ accepted = {}
    /\ existing_data = {} /\ index_notice = "none"
    /\ files_processed = 0 /\ files_skipped = 0
    /\ files_missing = 0 /\ total_rows_added = 0 /\ files_to_process = <<>>
    /\ batch_start = 0 /\ future_to_file = {} /\ running = {}
    /\ futures = {} /\ batch_results = <<>>
    /\ df_batch = <<>> /\ chunk_start = 0

HistIdle ==
    /\ sink_at_start = NoSink /\ committed = {} /\ prev = NoPrev
    /\ killed = FALSE /\ write_died = FALSE /\ stable = TRUE /\ batches = {}
    /\ failed = {}

----------------------------------------------------------------------------
(* Specification of the scanner alone: files are put into the directory,   *)
(* by name, and both scripts' scans read it.                               *)

YearSamples == {FIRST_YEAR - 1, FIRST_YEAR, FIRST_DOWNLOAD_YEAR, currentYear,
                currentYear + 1}
MonthSamples == {0, 1, 9, 10, 12, 13}
VariableSamples ==
    { <<"t">>,
      <<"2", "m", "_", "t">>,
      <<"1", "0", "m", "_", "d", "_", "p">>,
      <<"t", "p", "_">> }

\* Names that do not follow era5_<year>_<month:02d>_<variable>.grib
OtherNames ==
    { ERA5 \o US \o FormatInt(2024) \o US \o <<"1">> \o US \o <<"t">> \o GRIB,
      ERA5 \o US \o FormatInt(2024) \o US \o <<"+", "1">> \o US \o <<"t">> \o GRIB,
      ERA5 \o US \o FormatInt(2024) \o US \o <<"x", "x">> \o US \o <<"t">> \o GRIB,
      ERA5 \o US \o <<"x">> \o US \o <<"0", "1">> \o US \o <<"t">> \o GRIB,
      ERA5 \o US \o FormatInt(2024) \o US \o <<"0", "1">> \o GRIB,
      ERA5 \o US \o FormatInt(2024) \o GRIB,
      ERA5 \o US \o GRIB,
      ERA5 \o US \o FormatInt(2024) \o US \o <<"0", "1">> \o US \o GRIB,
      ERA5 \o <<"x">> \o US \o FormatInt(2024) \o US \o <<"0", "1">> \o US \o <<"t">> \o GRIB,
      ERA5 \o US \o FormatInt(2024) \o US \o <<"0", "1">> \o US \o <<"t">> \o <<".", "t", "x", "t">> }

FileSizes == {MIN_FILE_SIZE, 2000}

ScanInit ==
    /\ input_dir_exists \in BOOLEAN
    /\ dir = <<>>
    /\ decoder = <<>>
    /\ sink = NoSink
    /\ pc = "place"
    /\ run = 1
    /\ data_by_month = <<>> /\ log_monthly = {}
    /\ TransformIdle /\ MonthlyIdle
    /\ made = {}
    /\ RunIdle /\ HistIdle

\* A file named by the convention appears (download script, line 70).
PlaceConventional ==
    /\ pc = "place" /\ input_dir_exists
    /\ Cardinality(DOMAIN dir) < MaxScanFiles
    /\ \E y \in YearSamples, m \in MonthSamples, v \in VariableSamples,
          size \in FileSizes :
          LET name == MakeFilename(y, m, v)
          IN  /\ name \notin DOMAIN dir
              /\ dir' = (name :> size) @@ dir
              /\ made' = made \cup {[name |-> name, year |-> y, month |-> m,
                                     variable |-> v]}
    /\ UNCHANGED <<input_dir_exists, decoder, sink, pc, run, scanVars, monthVars,
                   planVars, loopVars, histVars>>

\* A file with some other name appears.
PlaceOther ==
    /\ pc = "place" /\ input_dir_exists
    /\ Cardinality(DOMAIN dir) < MaxScanFiles
    /\ \E name \in OtherNames \ DOMAIN dir, size \in FileSizes :
          dir' = (name :> size) @@ dir
    /\ UNCHANGED <<input_dir_exists, decoder, sink, pc, run, scanVars, monthVars,
                   planVars, loopVars, made, histVars>>

\* Both scripts scan the directory.
ScanBoth ==
    /\ pc = "place"
    /\ years_available' = discover_available_data(input_dir_exists, dir).years
    /\ variables_available' = discover_available_data(input_dir_exists, dir).variables
    /\ file_count' = discover_available_data(input_dir_exists, dir).file_count
    /\ log' = discover_available_data(input_dir_exists, dir).log
    /\ accepted' = discover_available_data(input_dir_exists, dir).accepted
    /\ \E listing \in Listings(Globbed(dir)) :
          /\ data_by_month' = discover_available_data_monthly(input_dir_exists, listing)
          /\ log_monthly' = {listing[k] : k \in {j \in DOMAIN listing :
                                   LoggedMonthly(ParseName(listing[j]))}}
    /\ pc' = "scanned"
    /\ UNCHANGED <<envVars, sink, run, planVars, loopVars, made, histVars, tfVars,
                   mrunVars>>

ScanNext == PlaceConventional \/ PlaceOther \/ ScanBoth

SpecScan == ScanInit /\ [][ScanNext]_vars

----------------------------------------------------------------------------
(* Work units, decoded rows and the rows of the sink *)

\* The key (year, month, variable) of a queue entry (filepath, variable, year, month)
KeyOf(u) == <<u.year, u.month, u.variable>>

\* astype('int16'), astype('int8')
ToInt16(n) == ((n + 32768) % 65536) - 32768
ToInt8(n)  == ((n + 128) % 256) - 128

\* check_file_exists(filepath)
check_file_exists(d, filepath) ==
    IF filepath \notin DOMAIN d THEN FALSE
    ELSE d[filepath] > MIN_FILE_SIZE

Months12 == [m \in 1..12 |-> m]

\* get_available_months_for_year_variable(year, variable)
get_available_months_for_year_variable(d, year, variable) ==
    LET Present(month) == check_file_exists(d, MakeFilename(year, month, variable))
    IN  SelectSeq(Months12, Present)

\* The number of rows the long table of a file has when it decodes: files of
\* different months hold grids of different sizes (here: as many as the month).
GridRows(filepath) == ParseName(filepath).month

\* Mutant: a file that does not decode gives one placeholder row.
load_grib_to_long_format_placeholder(dec, filepath, variable_name, year, month) ==
    [k \in 1..(IF dec[filepath] # "rows" THEN 1 ELSE GridRows(filepath)) |->
        [variable_name |-> variable_name, year |-> ToInt16(year),
         month |-> ToInt8(month), cell |-> k]]

\* load_grib_to_long_format: the long table of a file, one row per grid cell and
\* field (cell stands for latitude, longitude, time, field and value); the empty
\* table when there is no data column or when anything raises.
load_grib_to_long_format(dec, filepath, variable_name, year, month) ==
    IF dec[filepath] # "rows" THEN <<>>
    ELSE [k \in 1..GridRows(filepath) |->
             [variable_name |-> variable_name, year |-> ToInt16(year),
              month |-> ToInt8(month), cell |-> k]]

\* process_single_file(args): its except branch cannot be reached, since
\* load_grib_to_long_format returns the empty table on every exception.
process_single_file(dec, u) ==
    [success |-> TRUE, filepath |-> u.filepath,
     result |-> load_grib_to_long_format(dec, u.filepath, u.variable, u.year, u.month)]

----------------------------------------------------------------------------
(* load_grib_to_long_format in detail: from the decoded table to long rows *)

\* Cells of a table: a number, the missing float, a str that is no number, a
\* Timedelta of v seconds, a Timestamp.
Num(n) == [kind |-> "num", v |-> n]
NaN    == [kind |-> "nan", v |-> 0]
Text   == [kind |-> "text", v |-> 0]
Td(n)  == [kind |-> "td", v |-> n]
Ts(n)  == [kind |-> "ts", v |-> n]

\* The columns the parallel and the sequential script keep out of the melt
id_vars_fixed == <<"latitude", "longitude", "time">>

\* monthly script, line 122
potential_coordinate_columns ==
    <<"latitude", "longitude", "time", "step", "valid_time", "number", "surface",
      "heightAboveGround", "isobaricInhPa">>

\* dtype of a column of the decoded table
Dtype(t, col) ==
    LET kinds == {t.rows[k][col].kind : k \in DOMAIN t.rows}
    IN  IF kinds \subseteq {"num", "nan"} THEN "float64"
        ELSE IF kinds = {"td"} THEN "timedelta64"
        ELSE IF kinds = {"ts"} THEN "datetime64"
        ELSE "object"

\* dtype of the value column pd.melt builds from the columns value_vars
ValueDtype(t, value_vars) ==
    LET ds == {Dtype(t, value_vars[k]) : k \in DOMAIN value_vars}
    IN  IF Cardinality(ds) = 1 THEN CHOOSE d \in ds : TRUE ELSE "object"

\* pd.melt(df, id_vars=['latitude', 'longitude', time_col], value_vars=...,
\* var_name='grib_variable_name', value_name='value'): one row per row of df
\* and melted column, column after column.
melt(t, time_col, value_vars) ==
    LET n == Len(t.rows)
    IN  [i \in 1..(n * Len(value_vars)) |->
            LET col == value_vars[((i - 1) \div n) + 1]
                row == t.rows[((i - 1) % n) + 1]
            IN  [latitude |-> row["latitude"], longitude |-> row["longitude"],
                 time_name |-> time_col, time |-> row[time_col],
                 grib_variable_name |-> col, value |-> row[col],
                 variable_name |-> <<>>, year |-> 0, month |-> 0]]

\* df_long.assign(variable_name=..., year=..., month=...)
assign(rows, variable_name, year, month) ==
    [k \in DOMAIN rows |->
        [rows[k] EXCEPT !.variable_name = variable_name, !.year = year,
                        !.month = month]]

\* df_long['year'].astype('int16'), df_long['month'].astype('int8')
astype_year_month(rows) ==
    [k \in DOMAIN rows |->
        [rows[k] EXCEPT !.year = ToInt16(@), !.month = ToInt8(@)]]

\* df_long['value'].astype('float32') raises on a value that is no number
astype_float32_raises(rows) ==
    \E k \in DOMAIN rows : rows[k].value.kind \notin {"num", "nan"}

\* What load_grib_to_long_format returns, with what it did on the way: the
\* columns it melted, the timestamp column it chose, the rows it removed.
Returned(status, value_vars, time_col, rows, removed) ==
    [status |-> status, value_vars |-> value_vars, time_col |-> time_col,
     rows |-> rows, removed |-> removed]

\* a0001_wrangle_era5_data.py, load_grib_to_long_format
load_grib_to_long_format_a0001(t, variable_name, year, month) ==
    IF t.status = "raise" THEN Returned("raised", <<>>, "", <<>>, 0)
    ELSE
    LET variable_columns ==
            SelectSeq(t.columns, LAMBDA c : c \notin Range(id_vars_fixed))
        melted == assign(melt(t, "time", variable_columns),
                         variable_name, year, month)
    IN  IF variable_columns = <<>>
        THEN Returned("nocols", <<>>, "", <<>>, 0)
        ELSE IF astype_float32_raises(melted)
        THEN Returned("raised", variable_columns, "time", <<>>, 0)
        ELSE Returned("table", variable_columns, "time",
                      astype_year_month(melted), 0)

\* a000_wrangle_era5_data.py, load_grib_to_long_format: no column is cast
load_grib_to_long_format_a000(t, variable_name, year, month) ==
    IF t.status = "raise" THEN Returned("raised", <<>>, "", <<>>, 0)
    ELSE
    LET variable_columns ==
            SelectSeq(t.columns, LAMBDA c : c \notin Range(id_vars_fixed))
    IN  IF variable_columns = <<>>
        THEN Returned("nocols", <<>>, "", <<>>, 0)
        ELSE Returned("table", variable_columns, "time",
                      assign(melt(t, "time", variable_columns),
                             variable_name, year, month), 0)

\* monthly script, lines 123-124
coordinate_columns(t) ==
    SelectSeq(potential_coordinate_columns, LAMBDA c : c \in Range(t.columns))

variable_columns_monthly(t) ==
    SelectSeq(t.columns, LAMBDA c : c \notin Range(coordinate_columns(t)))

\* monthly script, line 131
time_col(t) == IF "valid_time" \in Range(t.columns) THEN "valid_time" ELSE "time"

\* monthly script, lines 143-144: df_long.rename(columns={time_col: 'time'})
rename_time(rows) == [k \in DOMAIN rows |-> [rows[k] EXCEPT !.time_name = "time"]]

\* monthly script, lines 159-165
convert_value(x) ==
    IF x.kind = "nan" THEN x
    ELSE IF x.kind = "td" THEN Num(x.v)
    ELSE x

\* Nanoseconds in a second: pd.to_numeric views a timedelta64 column as int64
NANOS == 1000000000

\* pd.to_numeric(df_long['value'], errors='coerce') on a column of dtype dtype
to_numeric(dtype, x) ==
    IF dtype \in {"timedelta64", "datetime64"} THEN Num(x.v * NANOS)
    ELSE IF x.kind = "num" THEN x
    ELSE NaN

\* df_long.dropna(subset=['value'])
dropna(rows) == SelectSeq(rows, LAMBDA r : r.value.kind # "nan")

\* a0001_wrangle_era5_data_monthly.py, load_grib_to_long_format
load_grib_to_long_format_monthly(t, variable_name, year, month) ==
    IF t.status = "raise" THEN Returned("raised", <<>>, "", <<>>, 0)
    ELSE
    LET variable_columns == variable_columns_monthly(t)
        tc == time_col(t)
        melted == assign(rename_time(melt(t, tc, variable_columns)),
                         variable_name, year, month)
        dtype == ValueDtype(t, variable_columns)
        converted == [k \in DOMAIN melted |->
                         [melted[k] EXCEPT !.value =
                             IF dtype = "object" THEN convert_value(@) ELSE @]]
        numeric == [k \in DOMAIN converted |->
                         [converted[k] EXCEPT !.value = to_numeric(dtype, @)]]
        kept == dropna(numeric)
    IN  IF variable_columns = <<>>
        THEN Returned("nocols", <<>>, "", <<>>, 0)
        ELSE Returned("table", variable_columns, tc,
                      IF Len(kept) > 0 THEN astype_year_month(kept) ELSE kept,
                      Len(numeric) - Len(kept))

\* The lines of the sink: the header, a data row as to_csv writes it, and the
\* unreadable tail an interrupted write can leave.
HeaderRow == [kind |-> "header", variable_name |-> <<>>, year |-> <<>>,
              month |-> <<>>, cell |-> 0]
TornRow   == [kind |-> "torn", variable_name |-> <<>>, year |-> <<>>,
              month |-> <<>>, cell |-> 0]

CsvRow(r) == [kind |-> "data", variable_name |-> r.variable_name,
              year |-> FormatInt(r.year), month |-> FormatInt(r.month),
              cell |-> r.cell]

CsvRows(df) == [k \in DOMAIN df |-> CsvRow(df[k])]

DataRows(s) == SelectSeq(s.rows, LAMBDA r : r.kind = "data")

\* Mutant: reading the sink never raises.
Corrupt_never(s) == FALSE

\* pd.read_csv(output_path, usecols=[...]) raises: the file is empty, its first
\* line is not the header (the named columns are not found), or a write was cut.
Corrupt(s) ==
    \/ s.rows = <<>>
    \/ s.rows[1].kind # "header"
    \/ \E k \in DOMAIN s.rows : s.rows[k].kind = "torn"

\* Values of the column variable_name as read_csv returns them: a Python str,
\* the float nan for a field that is one of the default NA tokens, a number when
\* every field of the column that is not NA is a number.
NaTokens == { <<>>, <<"N", "A">>, <<"n", "a", "n">>, <<"n", "u", "l", "l">> }

PyStr(s) == [type |-> "str", text |-> s]

PyNaN == [type |-> "float", text |-> <<"n", "a", "n">>]

PyInt(s) == [type |-> "int", text |-> FormatInt(DigitsValue(s))]

IsNumberText(s) == s # <<>> /\ \A k \in DOMAIN s : s[k] \in Digits

ReadCsvField(column, v) ==
    IF v \in NaTokens THEN PyNaN
    ELSE IF \A w \in column \ NaTokens : IsNumberText(w) THEN PyInt(v)
    ELSE PyStr(v)

\* The column variable_name of the sink
VariableColumn(s) == {r.variable_name : r \in Range(DataRows(s))}

\* What get_existing_data_index prints: the file is absent, it was read, or
\* reading it raised.
IndexNotice(s) ==
    IF ~s.exists THEN "no existing output file"
    ELSE IF Corrupt(s) THEN "error reading existing file"
    ELSE "found existing data"

\* Mutant: every write creates the file anew.
WriteMode_create(s) == "create"

\* to_csv(output_path, mode='a', header=False) against to_csv(output_path)
WriteMode(s) == IF s.exists THEN "append" ELSE "create"

\* Mutant: every write puts a header line first.
append_to_output_file_header(s, df_new) ==
    IF df_new = <<>> THEN s
    ELSE [exists |-> TRUE, rows |-> s.rows \o <<HeaderRow>> \o CsvRows(df_new)]

\* append_to_output_file(df_new)
append_to_output_file(s, df_new) ==
    IF df_new = <<>> THEN s
    ELSE IF WriteMode(s) = "append"
         THEN [s EXCEPT !.rows = @ \o CsvRows(df_new)]
         ELSE [exists |-> TRUE, rows |-> <<HeaderRow>> \o CsvRows(df_new)]

\* Mutant: the index is built with month and year in the wrong order.
get_existing_data_index_swapped(s) ==
    IF ~s.exists THEN {}
    ELSE IF Corrupt(s) THEN {}
    ELSE {<<ParseInt(r.month).val, ParseInt(r.year).val,
            ReadCsvField(VariableColumn(s), r.variable_name)>> :
             r \in Range(DataRows(s))}

\* get_existing_data_index()
get_existing_data_index(s) ==
    IF ~s.exists THEN {}
    ELSE IF Corrupt(s) THEN {}
    ELSE {<<ParseInt(r.year).val, ParseInt(r.month).val,
            ReadCsvField(VariableColumn(s), r.variable_name)>> :
             r \in Range(DataRows(s))}

----------------------------------------------------------------------------
(* Work Planner: process_all_data, lines 276-315 *)

\* Mutant: the planner does not look at the index.
AlreadyIngested_never(key, existing) == FALSE

\* (year, month, variable) in existing_data: variable is a str
AlreadyIngested(key, existing) == <<key[1], key[2], PyStr(key[3])>> \in existing

\* The iterations of the innermost loop, in order: year, then variable, then month.
RECURSIVE MonthsOf(_, _, _)
MonthsOf(d, year, variables) ==
    IF variables = <<>> THEN <<>>
    ELSE LET ms == get_available_months_for_year_variable(d, year, Head(variables))
         IN  [k \in DOMAIN ms |->
                 [year |-> year, variable |-> Head(variables), month |-> ms[k]]]
             \o MonthsOf(d, year, Tail(variables))

\* Mutant: one iteration for each file of the directory that the scan accepts.
LoopOrder_per_file(d, years, variables) ==
    LET names == SortedStrs({f \in Globbed(d) : ParseName(f).verdict = "accepted"})
    IN  [k \in DOMAIN names |->
            [year |-> ParseName(names[k]).year,
             variable |-> ParseName(names[k]).variable,
             month |-> ParseName(names[k]).month]]

RECURSIVE LoopOrder(_, _, _)
LoopOrder(d, years, variables) ==
    IF years = <<>> THEN <<>>
    ELSE MonthsOf(d, Head(years), variables) \o LoopOrder(d, Tail(years), variables)

\* One iteration of the innermost loop (lines 295-307).
PlanStep(d, existing, st, c) ==
    LET filepath == MakeFilename(c.year, c.month, c.variable)
    IN  IF AlreadyIngested(<<c.year, c.month, c.variable>>, existing)
        THEN [st EXCEPT !.files_skipped = @ + 1]
        ELSE IF ~check_file_exists(d, filepath)
        THEN [st EXCEPT !.files_missing = @ + 1]
        ELSE [st EXCEPT !.files_to_process =
                 Append(@, [filepath |-> filepath, variable |-> c.variable,
                            year |-> c.year, month |-> c.month])]

RECURSIVE PlanLoop(_, _, _, _)
PlanLoop(d, existing, st, cs) ==
    IF cs = <<>> THEN st
    ELSE PlanLoop(d, existing, PlanStep(d, existing, st, Head(cs)), Tail(cs))

BuildQueue(d, existing, years, variables) ==
    PlanLoop(d, existing,
             [files_skipped |-> 0, files_missing |-> 0, files_to_process |-> <<>>],
             LoopOrder(d, years, variables))

\* Mutant: only the table collected first is kept.
Concat_first(tables) == Head(tables)

\* pd.concat(batch_results, ignore_index=True)
RECURSIVE Concat(_)
Concat(tables) ==
    IF tables = <<>> THEN <<>> ELSE Head(tables) \o Concat(Tail(tables))

\* Mutant: main() goes on with an empty catalog.
NothingFound_never(years, variables) == FALSE

\* not years_available or not variables_available
NothingFound(years, variables) == years = <<>> \/ variables = <<>>

----------------------------------------------------------------------------
(* The pipeline: main() and process_all_data() of a0001_wrangle_era5_data.py *)

VarT   == <<"t">>
Var2mT == <<"2", "m", "_", "t">>
VarBad == <<"b", "a", "d">>

\* The files a source directory of the pipeline is drawn from.
PipelinePool ==
    { MakeFilename(2024, 1, VarT),
      MakeFilename(2024, 2, VarT),
      MakeFilename(2025, 1, Var2mT),
      ERA5 \o US \o FormatInt(2024) \o US \o <<"1">> \o US \o VarT \o GRIB,
      MakeFilename(2024, 13, VarBad) }

Dirs ==
    UNION {[S -> FileSizes] :
              S \in {T \in SUBSET PipelinePool : Cardinality(T) <= MaxFiles}}

\* What the decoder does with a file: it raises, it returns coordinates only,
\* or it returns the file's rows.
Outcomes == {"raise", "nocols", "rows"}

\* The files the planner can queue: large enough and named as the planner names them.
Queueable(d, f) ==
    /\ check_file_exists(d, f)
    /\ LET p == ParseName(f)
       IN  p.verdict = "accepted" /\ MakeFilename(p.year, p.month, p.variable) = f

Init ==
    /\ input_dir_exists \in BOOLEAN
    /\ dir \in Dirs
    /\ ~input_dir_exists => dir = <<>>
    /\ decoder \in [DOMAIN dir -> Outcomes]
    /\ \A f \in DOMAIN dir : ~Queueable(dir, f) => decoder[f] = "raise"
    /\ sink = NoSink
    /\ pc = "main"
    /\ run = 1
    /\ data_by_month = <<>> /\ log_monthly = {}
    /\ TransformIdle /\ MonthlyIdle
    /\ made = {}
    /\ RunIdle /\ HistIdle

\* main(), lines 391-398: discover, and exit(1) when nothing valid was found.
Discovered == discover_available_data(input_dir_exists, dir)

MainDiscover ==
    /\ pc = "main"
    /\ years_available' = Discovered.years
    /\ variables_available' = Discovered.variables
    /\ file_count' = Discovered.file_count
    /\ log' = Discovered.log
    /\ accepted' = Discovered.accepted
    /\ pc' = IF NothingFound(Discovered.years, Discovered.variables)
             THEN "exit1" ELSE "plan"
    /\ UNCHANGED <<envVars, sink, run, monthVars, planVars, loopVars, made, histVars>>

\* process_all_data(), lines 276-315: load the index, build the queue, and
\* return at once when the queue is empty.
Planned ==
    BuildQueue(dir, get_existing_data_index(sink), years_available,
               variables_available)

PlanQueue ==
    /\ pc = "plan"
    /\ existing_data' = get_existing_data_index(sink)
    /\ index_notice' = IndexNotice(sink)
    /\ files_skipped' = Planned.files_skipped
    /\ files_missing' = Planned.files_missing
    /\ files_to_process' = Planned.files_to_process
    /\ pc' = IF Planned.files_to_process = <<>> THEN "summary" ELSE "submit"
    /\ UNCHANGED <<envVars, sink, run, scanVars, monthVars, files_processed,
                   total_rows_added, batch_start, future_to_file, running, futures,
                   batch_results, df_batch, chunk_start, made, histVars>>

\* files_to_process[i:i+BATCH_SIZE]
BatchFiles(queue, start) ==
    SubSeq(queue, start + 1,
           IF start + BATCH_SIZE < Len(queue) THEN start + BATCH_SIZE ELSE Len(queue))

\* Lines 322-332: submit every unit of the next batch to the pool; the name
\* future_to_file is bound to the new futures, and only then the futures of the
\* batch before, each holding its result, are let go.
SubmitBatch ==
    /\ pc = "submit"
    /\ future_to_file' = Range(BatchFiles(files_to_process, batch_start))
    /\ running' = Range(BatchFiles(files_to_process, batch_start))
    /\ futures' = Range(BatchFiles(files_to_process, batch_start))
    /\ batch_results' = <<>>
    /\ pc' = "collect"
    /\ UNCHANGED <<envVars, sink, run, scanVars, monthVars, planVars, files_processed,
                   files_missing, total_rows_added, batch_start, df_batch, chunk_start,
                   made, histVars>>

\* future.result()
FutureResult(u) == process_single_file(decoder, u)

\* A worker finishes process_single_file for its unit; its future is done.
WorkerDone ==
    /\ pc = "collect"
    /\ \E u \in running : running' = running \ {u}
    /\ UNCHANGED <<envVars, sink, pc, run, scanVars, monthVars, planVars,
                   files_processed, files_missing, total_rows_added, batch_start,
                   future_to_file, futures, batch_results, df_batch, chunk_start,
                   made, histVars>>

\* The decoded tables the coordinator can still reach: a future that is done
\* keeps its result, and future_to_file keeps the futures.
HeldResults ==
    {u \in future_to_file \ running : FutureResult(u).result # <<>>}

\* Mutant: a unit without rows empties what was collected for the batch.
Collected_reset(results, r) ==
    IF r.success /\ r.result # <<>> THEN Append(results, r.result) ELSE <<>>

\* Lines 336-337: batch_results after one result is handled.
Collected(results, r) ==
    IF r.success /\ r.result # <<>> THEN Append(results, r.result) ELSE results

\* Lines 333-344: as_completed yields a future that is done; its result is
\* handled, in whatever order the workers finish.
CollectResult ==
    /\ pc = "collect"
    /\ \E u \in futures \ running :
          /\ futures' = futures \ {u}
          /\ batch_results' = Collected(batch_results, FutureResult(u))
          /\ IF FutureResult(u).success /\ FutureResult(u).result # <<>>
             THEN /\ files_processed' = files_processed + 1
                  /\ UNCHANGED files_missing
             ELSE IF FutureResult(u).success
             THEN UNCHANGED <<files_processed, files_missing>>
             ELSE /\ files_missing' = files_missing + 1
                  /\ UNCHANGED files_processed
          /\ failed' = IF decoder[u.filepath] # "rows"
                        THEN failed \cup {[key |-> KeyOf(u), filepath |-> u.filepath,
                                           run |-> run]}
                        ELSE failed
    /\ UNCHANGED <<envVars, sink, pc, run, scanVars, monthVars, planVars,
                   total_rows_added, batch_start, future_to_file, running, df_batch,
                   chunk_start, made, sink_at_start, committed, prev, killed,
                   write_died, stable, batches>>

\* End of one pass of the batch loop: del df_batch, del batch_results, next i.
NextBatch ==
    /\ batch_start' = batch_start + BATCH_SIZE
    /\ pc' = IF batch_start + BATCH_SIZE < Len(files_to_process)
             THEN "submit" ELSE "summary"
    /\ batch_results' = <<>>
    /\ df_batch' = <<>>
    /\ chunk_start' = 0

\* Mutant: the coordinator does not wait for the futures.
AllCollected_nowait(fs) == TRUE

\* The as_completed loop has ended and the with block has closed the pool.
AllCollected(fs) == fs = {}

\* Lines 346-349: all results are in; concatenate them, or go on when there are none.
CombineBatch ==
    /\ pc = "collect" /\ AllCollected(futures)
    /\ IF batch_results = <<>>
       THEN /\ NextBatch
            /\ UNCHANGED batches
       ELSE /\ df_batch' = Concat(batch_results)
            /\ chunk_start' = 0
            /\ pc' = "write"
            /\ batches' = batches \cup {Concat(batch_results)}
            /\ UNCHANGED <<batch_start, batch_results>>
    /\ UNCHANGED <<envVars, sink, run, scanVars, monthVars, planVars, files_processed,
                   files_missing, total_rows_added, future_to_file, running, futures,
                   made, sink_at_start, committed, prev, killed, write_died, stable,
                   failed>>

\* Mutant: a chunk ends one row late.
NextWrite_overlap ==
    IF Len(df_batch) > CHUNK_SIZE
    THEN SubSeq(df_batch, chunk_start + 1,
                IF chunk_start + CHUNK_SIZE + 1 < Len(df_batch)
                THEN chunk_start + CHUNK_SIZE + 1 ELSE Len(df_batch))
    ELSE df_batch

\* The rows the next call of append_to_output_file is given (lines 352-362):
\* the whole batch, or its next chunk when it has more than CHUNK_SIZE rows.
NextWrite ==
    IF Len(df_batch) > CHUNK_SIZE
    THEN SubSeq(df_batch, chunk_start + 1,
                IF chunk_start + CHUNK_SIZE < Len(df_batch)
                THEN chunk_start + CHUNK_SIZE ELSE Len(df_batch))
    ELSE df_batch

\* Mutant: the loop over the chunks ends after the first chunk.
LastWrite_first == TRUE

\* The call of append_to_output_file that is next is the last one of the batch.
LastWrite ==
    Len(df_batch) <= CHUNK_SIZE \/ chunk_start + CHUNK_SIZE >= Len(df_batch)

KeysOfRows(df) == {<<df[k].year, df[k].month, df[k].variable_name>> : k \in DOMAIN df}

\* Lines 351-369: one call of append_to_output_file; after the last one of the
\* batch, the batch is released and the loop goes on.
WriteBatch ==
    /\ pc = "write"
    /\ sink' = append_to_output_file(sink, NextWrite)
    /\ total_rows_added' = total_rows_added + Len(NextWrite)
    /\ IF LastWrite
       THEN /\ NextBatch
            /\ committed' = committed \cup KeysOfRows(df_batch)
       ELSE /\ chunk_start' = chunk_start + CHUNK_SIZE
            /\ UNCHANGED <<pc, batch_start, batch_results, df_batch, committed>>
    /\ UNCHANGED <<envVars, run, scanVars, monthVars, planVars, files_processed,
                   files_missing, future_to_file, running, futures, made,
                   sink_at_start, prev, killed, write_died, stable, batches,
                   failed>>

\* Lines 371-382 and main(), lines 410-437: the summaries; the run ends with success.
Summary ==
    /\ pc = "summary"
    /\ pc' = "done"
    /\ UNCHANGED <<envVars, sink, run, scanVars, monthVars, planVars, loopVars,
                   made, histVars>>

Running == pc \in {"main", "plan", "submit", "collect", "write", "summary"}
Ended   == pc \in {"done", "exit1", "aborted"}

\* What is left of the run's variables when the process is gone.
ProcessGone ==
    /\ years_available' = <<>> /\ variables_available' = <<>>
    /\ file_count' = 0 /\ log' = {} /\ accepted' = {}
    /\ existing_data' = {} /\ index_notice' = "none"
    /\ files_processed' = 0 /\ files_skipped' = 0
    /\ files_missing' = 0 /\ total_rows_added' = 0 /\ files_to_process' = <<>>
    /\ batch_start' = 0 /\ future_to_file' = {} /\ running' = {}
    /\ futures' = {} /\ batch_results' = <<>>
    /\ df_batch' = <<>> /\ chunk_start' = 0

\* The process is killed from outside between two steps.
Interrupt ==
    /\ Running
    /\ pc' = "aborted"
    /\ killed' = TRUE
    /\ ProcessGone
    /\ UNCHANGED <<envVars, sink, run, monthVars, made, sink_at_start, committed,
                   prev, write_died, stable, batches, failed>>

\* The process dies inside to_csv (killed, disk full): some of the rows of this
\* call reached the file, followed or not by an unreadable tail; or the file was
\* created and nothing reached it.
WriteDies ==
    /\ pc = "write"
    /\ \/ \E m \in 0..(Len(NextWrite) - 1), torn \in BOOLEAN :
             sink' = [exists |-> TRUE,
                      rows |-> (IF WriteMode(sink) = "append" THEN sink.rows
                                ELSE <<HeaderRow>>)
                               \o SubSeq(CsvRows(NextWrite), 1, m)
                               \o (IF torn THEN <<TornRow>> ELSE <<>>)]
       \/ /\ WriteMode(sink) = "create"
          /\ sink' = [exists |-> TRUE, rows |-> <<>>]
    /\ pc' = "aborted"
    /\ write_died' = TRUE
    /\ ProcessGone
    /\ UNCHANGED <<envVars, run, monthVars, made, sink_at_start, committed, prev,
                   killed, stable, batches, failed>>

\* The script is started again.
StartRun ==
    /\ Ended /\ run < MaxRuns
    /\ run' = run + 1
    /\ pc' = "main"
    /\ ProcessGone
    /\ sink_at_start' = sink
    /\ prev' = [outcome |-> pc, committed |-> committed]
    /\ committed' = {}
    /\ batches' = {}
    /\ UNCHANGED <<envVars, sink, monthVars, made, killed, write_died, stable,
                   failed>>

\* Between two runs a file that gave no rows starts to decode (a repaired
\* download, a new decoder version).
DecoderChanges ==
    /\ Ended /\ run < MaxRuns
    /\ \E f \in DOMAIN dir :
          /\ Queueable(dir, f)
          /\ decoder[f] # "rows"
          /\ decoder' = [decoder EXCEPT ![f] = "rows"]
    /\ stable' = FALSE
    /\ UNCHANGED <<input_dir_exists, dir, sink, pc, run, scanVars, monthVars,
                   planVars, loopVars, made, sink_at_start, committed, prev,
                   killed, write_died, batches, failed>>

Next ==
    \/ MainDiscover \/ PlanQueue \/ SubmitBatch \/ WorkerDone \/ CollectResult
    \/ CombineBatch
    \/ WriteBatch \/ Summary \/ Interrupt \/ WriteDies \/ StartRun \/ DecoderChanges

Spec == Init /\ [][Next]_vars

----------------------------------------------------------------------------
(* The same pipeline over a directory whose files carry variable identifiers *)
(* that are words of their own in a CSV file: an NA token and a number.      *)

VarNA  == <<"N", "A">>
Var10  == <<"1", "0">>

IndexPool ==
    { MakeFilename(2024, 1, VarNA),
      MakeFilename(2024, 1, Var10),
      MakeFilename(2024, 2, VarT) }

IndexDirs ==
    UNION {[S -> FileSizes] :
              S \in {T \in SUBSET IndexPool : Cardinality(T) <= MaxFiles}}

InitIndex ==
    /\ input_dir_exists = TRUE
    /\ dir \in IndexDirs
    /\ decoder \in [DOMAIN dir -> Outcomes]
    /\ \A f \in DOMAIN dir : ~Queueable(dir, f) => decoder[f] = "raise"
    /\ sink = NoSink
    /\ pc = "main"
    /\ run = 1
    /\ data_by_month = <<>> /\ log_monthly = {}
    /\ TransformIdle /\ MonthlyIdle
    /\ made = {}
    /\ RunIdle /\ HistIdle

SpecIndex == InitIndex /\ [][Next]_vars

----------------------------------------------------------------------------
(* Specification of load_grib_to_long_format alone: a table is decoded and  *)
(* each script's function is applied to it.                                 *)

\* Columns of a decoded table in the order reset_index leaves them: the index,
\* the other coordinates, the fields.
ColumnOrder ==
    <<"time", "latitude", "longitude", "number", "step", "valid_time",
      "t2m", "sst", "dur", "txt">>
AuxColumns   == {"number", "step", "valid_time"}
FloatFields  == {"t2m", "sst"}
OtherFields  == {"dur", "txt"}

\* The cell of a column that is not a float field, in row k: valid_time is
\* time plus step.
FixedCell(c, k) ==
    CASE c = "latitude"   -> Num(k)
      [] c = "longitude"  -> Num(k)
      [] c = "time"       -> Ts(k)
      [] c = "step"       -> Td(1)
      [] c = "valid_time" -> Ts(k + 1)
      [] c = "number"     -> Num(0)
      [] c = "dur"        -> Td(2)
      [] OTHER            -> Text

\* A float field holds a number or is missing (a masked grid cell).
FloatCell(c, present) == IF present THEN Num(IF c = "t2m" THEN 1 ELSE 2) ELSE NaN

TablesWith(cols, n) ==
    LET floats == Range(cols) \cap FloatFields
    IN  { [status |-> "table", columns |-> cols,
           rows |-> [k \in 1..n |->
                       [c \in Range(cols) |->
                           IF c \in floats THEN FloatCell(c, picks[k][c])
                           ELSE FixedCell(c, k)]]] :
          picks \in [1..n -> [floats -> BOOLEAN]] }

DecodedTables ==
    UNION { TablesWith(SelectSeq(ColumnOrder,
                                 LAMBDA c : c \in Range(id_vars_fixed) \cup aux \cup fields),
                       n) :
            aux \in SUBSET AuxColumns,
            fields \in SUBSET (FloatFields \cup OtherFields),
            n \in 1..MaxGridRows }

DecodeRaises == [status |-> "raise", columns |-> <<>>, rows |-> <<>>]

ArgSamples ==
    { [variable_name |-> VarT, year |-> FIRST_DOWNLOAD_YEAR, month |-> 1],
      [variable_name |-> Var2mT, year |-> FIRST_YEAR, month |-> 12] }

InitTransform ==
    /\ input_dir_exists = TRUE
    /\ dir = <<>>
    /\ decoder = <<>>
    /\ sink = NoSink
    /\ pc = "transform"
    /\ run = 1
    /\ data_by_month = <<>> /\ log_monthly = {}
    /\ made = {}
    /\ RunIdle /\ HistIdle
    /\ MonthlyIdle
    /\ df_decoded \in DecodedTables \cup {DecodeRaises}
    /\ args \in ArgSamples
    /\ df_long = [s \in Scripts |-> NotRun]
    /\ seq = SeqIdle
    /\ other = OtherIdle

TransformRest ==
    UNCHANGED <<envVars, sink, pc, run, scanVars, data_by_month, log_monthly,
                df_decoded, args, seq, other, mrunVars, planVars, loopVars, made,
                histVars>>

\* The parallel script transforms the table.
TransformParallel ==
    /\ pc = "transform" /\ df_long["a0001"].status = "none"
    /\ df_long' = [df_long EXCEPT !["a0001"] =
           load_grib_to_long_format_a0001(df_decoded, args.variable_name,
                                          args.year, args.month)]
    /\ TransformRest

\* The monthly script transforms the table.
TransformMonthly ==
    /\ pc = "transform" /\ df_long["monthly"].status = "none"
    /\ df_long' = [df_long EXCEPT !["monthly"] =
           load_grib_to_long_format_monthly(df_decoded, args.variable_name,
                                            args.year, args.month)]
    /\ TransformRest

\* The sequential script transforms the table.
TransformSequential ==
    /\ pc = "transform" /\ df_long["a000"].status = "none"
    /\ df_long' = [df_long EXCEPT !["a000"] =
           load_grib_to_long_format_a000(df_decoded, args.variable_name,
                                         args.year, args.month)]
    /\ TransformRest

NextTransform == TransformParallel \/ TransformMonthly \/ TransformSequential

SpecTransform == InitTransform /\ [][NextTransform]_vars

----------------------------------------------------------------------------
(* The monthly pipeline: main() and process_month() of                      *)
(* a0001_wrangle_era5_data_monthly.py                                       *)

RECENT_FILES == 3       \* create_recent_combined_file: len(recent_files) >= 3

\* load_metadata(), and set(metadata.get("processed_months", []))
load_metadata(mf) == IF mf.exists THEN mf.processed_months ELSE {}

\* sorted(data_by_month.keys())
MonthQueue(dbm) == SortedStrs(DOMAIN dbm)

\* Mutant: the output file is not looked at.
OutputOk_any(outs, month_key) == TRUE

\* check_file_exists(expected_output), and process_month line 205:
\* output_file.exists() and output_file.stat().st_size > 1024
OutputOk(outs, month_key) ==
    IF month_key \notin DOMAIN outs THEN FALSE
    ELSE outs[month_key].size > MIN_FILE_SIZE

\* main, line 309: the month is skipped without a call of process_month
MainSkips(pm, outs, month_key) == month_key \in pm /\ OutputOk(outs, month_key)

\* process_month, lines 213-225: the variables whose file is large enough and
\* gives rows
VariablesWithData(d, dec, info) ==
    {v \in DOMAIN info.variables :
        /\ check_file_exists(d, info.variables[v])
        /\ load_grib_to_long_format(dec, info.variables[v], v, info.year,
                                    info.month) # <<>>}

\* process_month(year, month, variables_dict): what it returns, and what it
\* did (the file it wrote has the size written_size)
process_month(d, dec, outs, info, month_key, written_size) ==
    LET good == VariablesWithData(d, dec, info)
    IN  IF OutputOk(outs, month_key)
        THEN [success |-> TRUE, files_count |-> 0, outputs |-> outs,
              did |-> "already processed"]
        ELSE IF good # {}
        THEN [success |-> TRUE, files_count |-> Cardinality(good),
              outputs |-> (month_key :> [size |-> written_size, readable |-> TRUE,
                                         variables |-> good]) @@ outs,
              did |-> "saved"]
        ELSE [success |-> FALSE, files_count |-> 0, outputs |-> outs,
              did |-> "no data"]

\* create_recent_combined_file: the monthly files it reads, the RECENT_FILES
\* last ones by year directory and file name
RecentFiles(outs) ==
    LET q == SortedStrs(DOMAIN outs)
    IN  {q[k] : k \in {j \in DOMAIN q : j > Len(q) - RECENT_FILES}}

\* pd.read_csv(file) raises on one of them
RecentRaises(outs) == \E k \in RecentFiles(outs) : ~outs[k].readable

\* The source directories of the monthly pipeline: two months, one of them
\* with two variables.
MonthlyPool ==
    { MakeFilename(2024, 1, VarT), MakeFilename(2024, 1, Var2mT),
      MakeFilename(2024, 2, VarT) }

MonthlyDirs ==
    UNION {[S -> FileSizes] :
              S \in {T \in SUBSET MonthlyPool : Cardinality(T) <= MaxFiles}}

InitMonthly ==
    /\ input_dir_exists \in BOOLEAN
    /\ dir \in MonthlyDirs
    /\ ~input_dir_exists => dir = <<>>
    /\ decoder \in [DOMAIN dir -> Outcomes]
    /\ sink = NoSink
    /\ pc = "monthly main"
    /\ run = 1
    /\ data_by_month = <<>> /\ log_monthly = {}
    /\ TransformIdle /\ MonthlyIdle
    /\ made = {}
    /\ RunIdle /\ HistIdle

MonthlyRest ==
    UNCHANGED <<sink, scanVars, log_monthly, tfVars, planVars, loopVars, made,
                histVars>>

\* main(), lines 288-299: load the metadata, scan, exit(1) when nothing is found.
MonthlyMain ==
    /\ pc = "monthly main"
    /\ processed_months' = load_metadata(metadata_file)
    /\ metadata_at_start' = load_metadata(metadata_file)
    /\ \E listing \in Listings(Globbed(dir)) :
          /\ data_by_month' = discover_available_data_monthly(input_dir_exists, listing)
          /\ pc' = IF discover_available_data_monthly(input_dir_exists, listing) = <<>>
                   THEN "monthly exit1" ELSE "monthly loop"
    /\ month_i' = 1
    /\ total_processed' = 0 /\ total_files' = 0 /\ handled' = <<>>
    /\ UNCHANGED <<envVars, run, metadata_file, outputs, interrupted>>
    /\ MonthlyRest

\* main(), lines 305-325: one pass of the loop over the months.
MonthlyStep ==
    /\ pc = "monthly loop" /\ month_i <= Len(MonthQueue(data_by_month))
    /\ LET month_key == MonthQueue(data_by_month)[month_i]
           month_info == data_by_month[month_key]
           Seen(did) == [did |-> did, flagged |-> month_key \in processed_months,
                         output_size |-> IF month_key \in DOMAIN outputs
                                         THEN outputs[month_key].size ELSE -1]
       IN  IF MainSkips(processed_months, outputs, month_key)
           THEN /\ handled' = (month_key :> Seen("skipped")) @@ handled
                /\ UNCHANGED <<outputs, processed_months, total_processed, total_files>>
           ELSE \E written_size \in FileSizes :
                  LET r == process_month(dir, decoder, outputs, month_info,
                                         month_key, written_size)
                  IN  /\ outputs' = r.outputs
                      /\ handled' = (month_key :> Seen(r.did)) @@ handled
                      /\ IF r.success
                         THEN /\ processed_months' = processed_months \cup {month_key}
                              /\ total_processed' = total_processed + 1
                              /\ total_files' = total_files + r.files_count
                         ELSE UNCHANGED <<processed_months, total_processed,
                                          total_files>>
    /\ month_i' = month_i + 1
    /\ UNCHANGED <<envVars, pc, run, data_by_month, metadata_file, metadata_at_start,
                   interrupted>>
    /\ MonthlyRest

\* main(), lines 327-329: the metadata file is written.
SaveMetadata ==
    /\ pc = "monthly loop" /\ month_i > Len(MonthQueue(data_by_month))
    /\ metadata_file' = [exists |-> TRUE, processed_months |-> processed_months]
    /\ pc' = "monthly recent"
    /\ UNCHANGED <<envVars, run, data_by_month, outputs, processed_months, month_i,
                   total_processed, total_files, handled, metadata_at_start,
                   interrupted>>
    /\ MonthlyRest

\* main(), line 332: create_recent_combined_file(); an exception of read_csv
\* ends the script with a traceback.
CreateRecent ==
    /\ pc = "monthly recent"
    /\ pc' = IF RecentRaises(outputs) THEN "monthly crashed" ELSE "monthly summary"
    /\ UNCHANGED <<envVars, run, data_by_month, mrunVars>>
    /\ MonthlyRest

\* main(), lines 334-343: the final summary.
MonthlySummary ==
    /\ pc = "monthly summary"
    /\ pc' = "monthly done"
    /\ UNCHANGED <<envVars, run, data_by_month, mrunVars>>
    /\ MonthlyRest

\* process_month, line 234: the process is killed while to_csv writes the
\* monthly file; what is left is a cut gzip stream of some size.
MonthlyWriteDies ==
    /\ pc = "monthly loop" /\ month_i <= Len(MonthQueue(data_by_month))
    /\ LET month_key == MonthQueue(data_by_month)[month_i]
       IN  /\ ~MainSkips(processed_months, outputs, month_key)
           /\ ~OutputOk(outputs, month_key)
           /\ VariablesWithData(dir, decoder, data_by_month[month_key]) # {}
           /\ \E left \in {0} \cup FileSizes :
                 outputs' = (month_key :> [size |-> left, readable |-> FALSE,
                                           variables |-> {}]) @@ outputs
           /\ interrupted' = interrupted \cup {[month |-> month_key, run |-> run]}
    /\ pc' = "monthly killed"
    /\ UNCHANGED <<envVars, run, data_by_month, metadata_file, processed_months,
                   month_i, total_processed, total_files, handled, metadata_at_start>>
    /\ MonthlyRest

MonthlyEnded ==
    pc \in {"monthly done", "monthly crashed", "monthly exit1", "monthly killed"}

\* Between two runs a monthly file is deleted.
OutputDeleted ==
    /\ MonthlyEnded /\ run < MaxRuns
    /\ \E k \in DOMAIN outputs :
          outputs' = [j \in DOMAIN outputs \ {k} |-> outputs[j]]
    /\ UNCHANGED <<envVars, pc, run, data_by_month, metadata_file, processed_months,
                   month_i, total_processed, total_files, handled, metadata_at_start,
                   interrupted>>
    /\ MonthlyRest

\* Between two runs a monthly file is truncated to nothing.
OutputTruncated ==
    /\ MonthlyEnded /\ run < MaxRuns
    /\ \E k \in DOMAIN outputs :
          /\ outputs[k].readable
          /\ outputs' = [outputs EXCEPT ![k] = [size |-> 0, readable |-> FALSE,
                                                variables |-> {}]]
    /\ UNCHANGED <<envVars, pc, run, data_by_month, metadata_file, processed_months,
                   month_i, total_processed, total_files, handled, metadata_at_start,
                   interrupted>>
    /\ MonthlyRest

\* Between two runs a source file is replaced, and decodes in another way.
SourceReplaced ==
    /\ MonthlyEnded /\ run < MaxRuns
    /\ \E f \in DOMAIN dir, o \in Outcomes :
          /\ decoder[f] # o
          /\ decoder' = [decoder EXCEPT ![f] = o]
    /\ UNCHANGED <<input_dir_exists, dir, pc, run, data_by_month, mrunVars>>
    /\ MonthlyRest

\* The monthly script is started again.
MonthlyStart ==
    /\ MonthlyEnded /\ run < MaxRuns
    /\ run' = run + 1
    /\ pc' = "monthly main"
    /\ data_by_month' = <<>>
    /\ processed_months' = {} /\ month_i' = 0
    /\ total_processed' = 0 /\ total_files' = 0
    /\ handled' = <<>> /\ metadata_at_start' = {}
    /\ UNCHANGED <<envVars, metadata_file, outputs, interrupted>>
    /\ MonthlyRest

NextMonthly ==
    \/ MonthlyMain \/ MonthlyStep \/ SaveMetadata \/ CreateRecent \/ MonthlySummary
    \/ MonthlyWriteDies \/ OutputDeleted \/ OutputTruncated \/ SourceReplaced
    \/ MonthlyStart

SpecMonthly == InitMonthly /\ [][NextMonthly]_vars

----------------------------------------------------------------------------
(* Specification of the scan and the planner alone, over directories with   *)
(* several variables in a year and several names for one key, and sinks     *)
(* that hold some of the keys.                                              *)

\* discover_available_data, lines 66-104: the loop over one directory
\* listing, which collects the years and the variables in two sets
RECURSIVE years_variables_found(_, _)
years_variables_found(listing, acc) ==
    IF listing = <<>> THEN acc
    ELSE LET p == ParseName(Head(listing))
         IN  years_variables_found(Tail(listing),
                IF p.verdict = "accepted"
                THEN [years_found |-> acc.years_found \cup {p.year},
                      variables_found |-> acc.variables_found \cup {p.variable}]
                ELSE acc)

\* The queue of a run whose glob returned the files in the order listing
QueueOfListing(d, s, listing) ==
    LET found == years_variables_found(listing,
                    [years_found |-> {}, variables_found |-> {}])
    IN  BuildQueue(d, get_existing_data_index(s), SortedInts(found.years_found),
                   SortedStrs(found.variables_found)).files_to_process

PlanPool ==
    { MakeFilename(2024, 1, VarT),
      MakeFilename(2024, 2, VarT),
      MakeFilename(2024, 2, Var2mT),
      MakeFilename(2025, 1, Var2mT),
      ERA5 \o US \o FormatInt(2024) \o US \o <<"1">> \o US \o VarT \o GRIB,
      ERA5 \o US \o <<"0">> \o FormatInt(2024) \o US \o <<"0", "1">> \o US \o VarT \o GRIB }

PlanDirs ==
    UNION {[S -> {2000}] :
              S \in {T \in SUBSET PlanPool : Cardinality(T) <= MaxFiles}}

\* The sink after the rows of the units keys were written to it, in this order
SinkWith(keys) ==
    append_to_output_file(NoSink,
        [k \in DOMAIN keys |->
            [variable_name |-> keys[k][3], year |-> ToInt16(keys[k][1]),
             month |-> ToInt8(keys[k][2]), cell |-> 1]])

PlanSinks ==
    { SinkWith(keys) :
        keys \in { <<>>,
                   << <<2024, 1, VarT>> >>,
                   << <<2024, 2, Var2mT>> >>,
                   << <<2025, 1, Var2mT>>, <<2024, 2, VarT>> >> } }

InitPlan ==
    /\ input_dir_exists = TRUE
    /\ dir \in PlanDirs
    /\ decoder = [f \in DOMAIN dir |-> "rows"]
    /\ sink \in PlanSinks
    /\ pc = "main"
    /\ run = 1
    /\ data_by_month = <<>> /\ log_monthly = {}
    /\ TransformIdle /\ MonthlyIdle
    /\ made = {}
    /\ RunIdle
    /\ sink_at_start = sink /\ committed = {} /\ prev = NoPrev
    /\ killed = FALSE /\ write_died = FALSE /\ stable = TRUE /\ batches = {}
    /\ failed = {}

NextPlan == MainDiscover \/ PlanQueue

SpecPlan == InitPlan /\ [][NextPlan]_vars

----------------------------------------------------------------------------
(* The download script a0000_download_era5.py between two runs of the       *)
(* long-format pipeline, on the directory both work on.                     *)

DOWNLOAD_MIN_SIZE == 1048576   \* line 77: os.path.getsize(filepath) > 1024*1024
MaxDownloadMonth == 2          \* months of FIRST_DOWNLOAD_YEAR the service answers for

\* Lines 60-67: the variables the script asks for (six identifiers; one here).
DownloadVariables == {VarT}

\* Line 70: the names the script builds, as far as the service answers for them.
DownloadPool ==
    {MakeFilename(FIRST_DOWNLOAD_YEAR, m, v) :
        m \in 1..MaxDownloadMonth, v \in DownloadVariables}

\* Sizes of a file the download wrote: cut short, exactly 1 MiB, complete.
DownloadSizes == {2000, DOWNLOAD_MIN_SIZE, 2000000}

\* Line 77: the file is taken as downloaded and is left alone.
download_skips(d, filepath) ==
    filepath \in DOMAIN d /\ d[filepath] > DOWNLOAD_MIN_SIZE

InitDownload ==
    /\ input_dir_exists = TRUE
    /\ dir \in UNION {[S -> DownloadSizes] : S \in SUBSET DownloadPool}
    /\ decoder \in [DOMAIN dir -> Outcomes]
    /\ sink = NoSink
    /\ pc = "main"
    /\ run = 1
    /\ data_by_month = <<>> /\ log_monthly = {}
    /\ TransformIdle /\ MonthlyIdle
    /\ made = {}
    /\ RunIdle /\ HistIdle

\* Lines 46-147: one run of the download script between two pipeline runs.
\* Every file it does not skip is asked for again; c.retrieve writes the
\* answer to the same path (line 137), or raises and the file stays as it is.
DownloadRun ==
    /\ Ended /\ run < MaxRuns
    /\ \E served \in SUBSET {f \in DownloadPool : ~download_skips(dir, f)} :
          /\ served # {}
          /\ \E new \in [served -> [size : DownloadSizes, dec : Outcomes]] :
                /\ dir' = [f \in DOMAIN dir \cup served |->
                              IF f \in served THEN new[f].size ELSE dir[f]]
                /\ decoder' = [f \in DOMAIN dir \cup served |->
                                  IF f \in served THEN new[f].dec ELSE decoder[f]]
    /\ stable' = FALSE
    /\ UNCHANGED <<input_dir_exists, sink, pc, run, scanVars, monthVars,
                   planVars, loopVars, made, sink_at_start, committed, prev,
                   killed, write_died, batches, failed>>

NextDownload ==
    \/ MainDiscover \/ PlanQueue \/ SubmitBatch \/ WorkerDone \/ CollectResult
    \/ CombineBatch \/ WriteBatch \/ Summary \/ StartRun \/ DownloadRun

SpecDownload == InitDownload /\ [][NextDownload]_vars

----------------------------------------------------------------------------
(* The sequential script a000_wrangle_era5_data.py and the parallel script  *)
(* a0001_wrangle_era5_data.py, each run once from the same directory, the   *)
(* same decoded tables and a sink of the same content.                      *)

SEQ_BATCH_SIZE == 2     \* a000, line 250: batch_size = 50; scaled

\* What cfgrib makes of a file: as Outcomes, and "aux" for a table that has
\* the columns number, step and valid_time beside its field.
AgreeOutcomes == Outcomes \cup {"aux"}

\* The decoded table of a file of n grid rows, after reset_index.
DecodedAs(o, n) ==
    LET cols == CASE o = "rows" -> <<"time", "latitude", "longitude", "t2m">>
                  [] o = "aux"  -> <<"time", "latitude", "longitude", "number",
                                     "step", "valid_time", "t2m">>
                  [] OTHER      -> <<"time", "latitude", "longitude">>
    IN  IF o = "raise" THEN DecodeRaises
        ELSE [status |-> "table", columns |-> cols,
              rows |-> [k \in 1..n |->
                          [c \in Range(cols) |->
                              IF c = "t2m" THEN FloatCell(c, TRUE)
                              ELSE FixedCell(c, k)]]]

\* a000, line 282: load_grib_to_long_format(filepath, variable, year, month),
\* as rows of the sink's columns.
load_grib_to_long_format_seq(dec, filepath, variable_name, year, month) ==
    LET r == load_grib_to_long_format_a000(
                 DecodedAs(dec[filepath], GridRows(filepath)),
                 variable_name, year, month).rows
    IN  [k \in DOMAIN r |->
            [variable_name |-> r[k].variable_name, year |-> r[k].year,
             month |-> r[k].month, cell |-> k]]

AgreePool == { MakeFilename(2024, 1, VarT), MakeFilename(2024, 2, VarT) }

AgreeSinks == { SinkWith(<<>>), SinkWith(<< <<2024, 1, VarT>> >>) }

InitAgree ==
    /\ input_dir_exists = TRUE
    /\ dir \in UNION {[S -> FileSizes] : S \in SUBSET AgreePool}
    /\ decoder \in [DOMAIN dir -> AgreeOutcomes]
    /\ sink \in AgreeSinks
    /\ pc = "main"
    /\ run = 1
    /\ data_by_month = <<>> /\ log_monthly = {}
    /\ df_decoded = NoTable
    /\ args = [variable_name |-> <<>>, year |-> 0, month |-> 0]
    /\ df_long = [s \in Scripts |-> NotRun]
    /\ seq = [SeqIdle EXCEPT !.pc = "main", !.sink = sink]
    /\ other = OtherIdle
    /\ MonthlyIdle
    /\ made = {}
    /\ RunIdle /\ HistIdle

SeqRest ==
    UNCHANGED <<envVars, sink, pc, run, scanVars, data_by_month, log_monthly,
                df_decoded, args, df_long, other, mrunVars, planVars, loopVars,
                made, histVars>>

\* a000 main(), lines 327-343, and process_all_data, lines 241-250: scan,
\* exit(1) when nothing is found, read the index.
SeqMain ==
    /\ pc \in {"done", "exit1"} /\ seq.pc = "main"
    /\ seq' = IF NothingFound(Discovered.years, Discovered.variables)
              THEN [seq EXCEPT !.pc = "exit1"]
              ELSE [seq EXCEPT !.pc = "loop",
                               !.existing_data = get_existing_data_index(seq.sink),
                               !.cs = LoopOrder(dir, Discovered.years,
                                                Discovered.variables),
                               !.i = 1]
    /\ SeqRest

\* a000 process_all_data, lines 264-297: one pass of the innermost loop.
SeqStep ==
    /\ seq.pc = "loop" /\ seq.i <= Len(seq.cs)
    /\ LET c == seq.cs[seq.i]
           filepath == MakeFilename(c.year, c.month, c.variable)
           df_month == load_grib_to_long_format_seq(decoder, filepath, c.variable,
                                                    c.year, c.month)
           batch_data == Append(seq.batch_data, df_month)
           next == [seq EXCEPT !.i = @ + 1]
       IN  seq' =
             IF AlreadyIngested(<<c.year, c.month, c.variable>>, seq.existing_data)
             THEN [next EXCEPT !.files_skipped = @ + 1]
             ELSE IF ~check_file_exists(dir, filepath)
             THEN [next EXCEPT !.files_missing = @ + 1]
             ELSE IF df_month = <<>>
             THEN [next EXCEPT !.files_missing = @ + 1]
             ELSE IF Len(batch_data) >= SEQ_BATCH_SIZE
             THEN [next EXCEPT !.files_processed = @ + 1,
                               !.sink = append_to_output_file(@, Concat(batch_data)),
                               !.total_rows_added = @ + Len(Concat(batch_data)),
                               !.batch_data = <<>>]
             ELSE [next EXCEPT !.files_processed = @ + 1,
                               !.batch_data = batch_data]
    /\ SeqRest

\* a000 process_all_data, lines 299-317: the final batch and the summary.
SeqFinish ==
    /\ seq.pc = "loop" /\ seq.i > Len(seq.cs)
    /\ seq' = IF seq.batch_data # <<>>
              THEN [seq EXCEPT !.pc = "summary",
                               !.sink = append_to_output_file(@, Concat(seq.batch_data)),
                               !.total_rows_added = @ + Len(Concat(seq.batch_data)),
                               !.batch_data = <<>>]
              ELSE [seq EXCEPT !.pc = "summary"]
    /\ SeqRest

NextAgree ==
    \/ MainDiscover \/ PlanQueue \/ SubmitBatch \/ WorkerDone \/ CollectResult
    \/ CombineBatch \/ WriteBatch \/ Summary
    \/ SeqMain \/ SeqStep \/ SeqFinish

SpecAgree == InitAgree /\ [][NextAgree]_vars

----------------------------------------------------------------------------
(* Two processes of a0001_wrangle_era5_data.py at the same time, on the     *)
(* same directory and the same sink. The first is the pipeline above; the   *)
(* second takes its steps between the steps of the first. Each call of      *)
(* append_to_output_file is taken as one step.                              *)

InitOverlap ==
    /\ input_dir_exists = TRUE
    /\ dir \in UNION {[S -> FileSizes] : S \in SUBSET AgreePool}
    /\ decoder \in [DOMAIN dir -> Outcomes]
    /\ sink \in AgreeSinks
    /\ pc = "main"
    /\ run = 1
    /\ data_by_month = <<>> /\ log_monthly = {}
    /\ df_decoded = NoTable
    /\ args = [variable_name |-> <<>>, year |-> 0, month |-> 0]
    /\ df_long = [s \in Scripts |-> NotRun]
    /\ seq = SeqIdle
    /\ other = [OtherIdle EXCEPT !.pc = "main"]
    /\ MonthlyIdle
    /\ made = {}
    /\ RunIdle /\ HistIdle

OtherRest ==
    UNCHANGED <<envVars, pc, run, scanVars, data_by_month, log_monthly,
                df_decoded, args, df_long, seq, mrunVars, planVars, loopVars,
                made, histVars>>

\* The second process: main() and process_all_data(), lines 276-315: the
\* scan, the index read once from the sink as it is now, the queue.
OtherPlanned ==
    BuildQueue(dir, get_existing_data_index(sink), Discovered.years,
               Discovered.variables)

OtherStart ==
    /\ other.pc = "main"
    /\ other' =
          IF NothingFound(Discovered.years, Discovered.variables)
          THEN [other EXCEPT !.pc = "exit1"]
          ELSE [other EXCEPT
                  !.existing_data = get_existing_data_index(sink),
                  !.files_skipped = OtherPlanned.files_skipped,
                  !.files_to_process = OtherPlanned.files_to_process,
                  !.pc = IF OtherPlanned.files_to_process = <<>>
                         THEN "done" ELSE "batch"]
    /\ UNCHANGED sink
    /\ OtherRest

\* The rows of a batch of the second process, the units in queue order.
RECURSIVE OtherResults(_)
OtherResults(units) ==
    IF units = <<>> THEN <<>>
    ELSE Collected(OtherResults(SubSeq(units, 1, Len(units) - 1)),
                   FutureResult(units[Len(units)]))

\* The second process after a batch: the next batch, or the end of the run.
OtherNextBatch(o) ==
    [o EXCEPT !.batch_start = @ + BATCH_SIZE,
              !.df_batch = <<>>, !.chunk_start = 0,
              !.pc = IF o.batch_start + BATCH_SIZE < Len(o.files_to_process)
                     THEN "batch" ELSE "done"]

\* The second process, lines 319-349: a batch is decoded and combined.
OtherBatch ==
    /\ other.pc = "batch"
    /\ LET results == OtherResults(BatchFiles(other.files_to_process,
                                              other.batch_start))
           counted == [other EXCEPT !.files_processed = @ + Len(results)]
       IN  other' = IF results = <<>> THEN OtherNextBatch(counted)
                    ELSE [counted EXCEPT !.df_batch = Concat(results),
                                         !.chunk_start = 0, !.pc = "write"]
    /\ UNCHANGED sink
    /\ OtherRest

\* The second process, lines 351-369: one call of append_to_output_file.
OtherWrite ==
    /\ other.pc = "write"
    /\ LET b == other.df_batch
           chunk_end == IF other.chunk_start + CHUNK_SIZE < Len(b)
                        THEN other.chunk_start + CHUNK_SIZE ELSE Len(b)
           rows == IF Len(b) > CHUNK_SIZE
                   THEN SubSeq(b, other.chunk_start + 1, chunk_end) ELSE b
       IN  /\ sink' = append_to_output_file(sink, rows)
           /\ other' = IF Len(b) <= CHUNK_SIZE \/ chunk_end >= Len(b)
                       THEN OtherNextBatch(other)
                       ELSE [other EXCEPT !.chunk_start = @ + CHUNK_SIZE]
    /\ OtherRest

NextOverlap ==
    \/ MainDiscover \/ PlanQueue \/ SubmitBatch \/ WorkerDone \/ CollectResult
    \/ CombineBatch \/ WriteBatch \/ Summary
    \/ OtherStart \/ OtherBatch \/ OtherWrite

SpecOverlap == InitOverlap /\ [][NextOverlap]_vars

----------------------------------------------------------------------------
(* Properties *)

IsPrefix(a, b) == Len(a) <= Len(b) /\ SubSeq(b, 1, Len(a)) = a

Occurrences(row, rows) == Cardinality({k \in DOMAIN rows : rows[k] = row})

\* The queue of the current run has been built.
PlanDone == pc \in {"submit", "collect", "write", "summary", "done"}

\* No run so far was killed or died in a write.
AllRunsCompleted == ~killed /\ ~write_died

\* Every file the planner can queue decodes to its rows.
AllDecodable == \A f \in DOMAIN dir : Queueable(dir, f) => decoder[f] = "rows"

\* The lines the sink must hold for a file once it is ingested.
UnitRows(f) ==
    LET p == ParseName(f)
    IN  {CsvRow([variable_name |-> p.variable, year |-> p.year, month |-> p.month,
                 cell |-> k]) : k \in 1..GridRows(f)}

C3_RecoversAfterInterruption ==
    (killed /\ ~write_died /\ pc = "done" /\ AllDecodable)
    => \A f \in DOMAIN dir :
          Queueable(dir, f)
          => \A r \in UnitRows(f) : Occurrences(r, sink.rows) = 1

\* C4 (as claimed): the sink holds all rows of a batch a run started to write,
\* or none of them.
C4_AtomicBatchCommit ==
    \A b \in batches :
       LET rs == Range(CsvRows(b))
           present == rs \cap Range(sink.rows)
       IN  present = {} \/ present = rs

\* C5: a run that starts with an existing sink only adds lines after the ones it
\* found, and a run that queues nothing leaves the sink as it found it.
C5_AppendOnly ==
    /\ sink_at_start.exists
       => (sink.exists /\ IsPrefix(sink_at_start.rows, sink.rows))
    /\ (pc \in {"summary", "done", "exit1"} /\ files_to_process = <<>>)
       => sink = sink_at_start

\* A completed run that added lines to the sink it found.
C5_Witness ==
    /\ pc = "done" /\ sink_at_start.exists
    /\ Len(sink.rows) > Len(sink_at_start.rows)

\* C6 (as claimed): the queue has one entry for each accepted file that passes
\* the size check and whose key is not in the index.
C6_CompleteUnderBacklog ==
    PlanDone
    => LET N == {p \in accepted : check_file_exists(dir, p.name)}
           K == {p \in N : AlreadyIngested(<<p.year, p.month, p.variable>>,
                                            existing_data)}
       IN  /\ Len(files_to_process) = Cardinality(N) - Cardinality(K)
           /\ {files_to_process[k].filepath : k \in DOMAIN files_to_process}
                 = {p.name : p \in N \ K}

\* The candidates of the planner: year x variable x month with a file present.
Candidates ==
    {c \in [year : Range(years_available), variable : Range(variables_available),
            month : 1..12] :
        MakeFilename(c.year, c.month, c.variable) \in DOMAIN dir}

\* C7 (as claimed): every candidate is counted once, as skipped-existing when its
\* key is in the index, else as skipped-missing when its file fails the size
\* check, else as queued.
C7_PlannerClassification ==
    pc \in {"submit", "summary"}
    => LET E == {c \in Candidates :
                    AlreadyIngested(<<c.year, c.month, c.variable>>, existing_data)}
           M == {c \in Candidates \ E :
                    ~check_file_exists(dir, MakeFilename(c.year, c.month, c.variable))}
       IN  /\ files_skipped = Cardinality(E)
           /\ files_missing = Cardinality(M)
           /\ Len(files_to_process) = Cardinality((Candidates \ E) \ M)
           /\ files_skipped + files_missing + Len(files_to_process)
                 = Cardinality(Candidates)

\* The filenames the claim accepts.
WellFormedName(f) ==
    LET parts == SplitUS(RemoveGrib(f))
    IN  /\ Len(parts) >= 4
        /\ parts[1] = ERA5
        /\ ParseInt(parts[2]).ok /\ ParseInt(parts[3]).ok
        /\ FIRST_YEAR <= ParseInt(parts[2]).val
        /\ ParseInt(parts[2]).val <= currentYear
        /\ 1 <= ParseInt(parts[3]).val /\ ParseInt(parts[3]).val <= 12

InMonthlyCatalog(f) ==
    \E k \in DOMAIN data_by_month :
       \E v \in DOMAIN data_by_month[k].variables :
          data_by_month[k].variables[v] = f

\* C8 (as claimed): of the files the scan lists, both scripts accept exactly the
\* well-formed ones, and print a line for every other one.
C8_ScannerAcceptance ==
    pc = "scanned"
    => \A f \in Globbed(dir) :
          /\ (f \in {p.name : p \in accepted}) <=> WellFormedName(f)
          /\ InMonthlyCatalog(f) <=> WellFormedName(f)
          /\ ~WellFormedName(f) => (f \in log /\ f \in log_monthly)

C10_ExitStatus ==
    /\ pc = "exit1"
       => (accepted = {} /\ files_to_process = <<>> /\ sink = sink_at_start)
    /\ PlanDone \/ pc = "plan" => accepted # {}
    /\ (pc \in {"done", "exit1"} /\ Discovered.accepted # {}) => pc = "done"
    /\ (pc \in {"done", "exit1"} /\ Discovered.accepted = {}) => pc = "exit1"

\* A run that ended with success although no queued unit gave rows.
C10_Witness ==
    /\ pc = "done" /\ files_to_process # <<>> /\ files_processed = 0
    /\ \A k \in DOMAIN files_to_process :
          decoder[files_to_process[k].filepath] # "rows"

\* The key the planner builds for the unit a line of the sink came from.
PlannerKey(r) == <<ParseInt(r.year).val, ParseInt(r.month).val, r.variable_name>>

\* C11 (as claimed): the index is empty when the run found no sink; when the run
\* found a readable sink, the index has one key for each distinct (year, month,
\* variable_name) of its lines and the key the planner builds for the unit of a
\* line is found in it; after a completed first run the index of the second run
\* holds exactly the keys the first run committed.
C11_IndexContent ==
    PlanDone
    => /\ ~sink_at_start.exists => existing_data = {}
       /\ (sink_at_start.exists /\ ~Corrupt(sink_at_start))
          => /\ Cardinality(existing_data)
                   = Cardinality({PlannerKey(r) : r \in Range(DataRows(sink_at_start))})
             /\ \A r \in Range(DataRows(sink_at_start)) :
                   AlreadyIngested(PlannerKey(r), existing_data)
       /\ (run = 2 /\ prev.outcome = "done" /\ AllRunsCompleted)
          => \A key \in prev.committed : AlreadyIngested(key, existing_data)

\* The key columns of the sink cannot be read.
Unreadable(s) ==
    /\ s.exists
    /\ \/ s.rows = <<>>
       \/ s.rows[1].kind # "header"
       \/ \E k \in DOMAIN s.rows : s.rows[k].kind = "torn"

\* C12: a run that found a sink whose key columns cannot be read has an empty
\* index and printed the error notice, and went on to plan: it skipped nothing
\* and its queue is the queue of a run without a sink, with every file the
\* planner can queue in it.
C12_IndexReadFailureFallback ==
    (PlanDone /\ Unreadable(sink_at_start))
    => /\ existing_data = {}
       /\ index_notice = "error reading existing file"
       /\ files_skipped = 0
       /\ files_to_process
             = BuildQueue(dir, {}, years_available, variables_available).files_to_process
       /\ \A f \in DOMAIN dir :
             Queueable(dir, f)
             => \E k \in DOMAIN files_to_process : files_to_process[k].filepath = f

\* A run that found an unreadable sink with data lines in it, queued units and
\* ran to its end.
C12_Witness ==
    /\ pc = "done" /\ Unreadable(sink_at_start)
    /\ DataRows(sink_at_start) # <<>>
    /\ files_to_process # <<>>

QueuedRows ==
    UNION {Range(CsvRows(process_single_file(decoder, files_to_process[k]).result)) :
              k \in DOMAIN files_to_process}

\* C14: when a run that found no sink has come to its summary, the sink holds the
\* header (if any row was written) and then exactly the rows returned for the
\* queued units, each once, and total_rows_added is their number.
C14_WriterCompleteness ==
    (pc = "summary" /\ ~sink_at_start.exists)
    => /\ Range(DataRows(sink)) = QueuedRows
       /\ Len(DataRows(sink)) = Cardinality(QueuedRows)
       /\ Len(sink.rows) = (IF sink.exists THEN 1 ELSE 0) + Len(DataRows(sink))
       /\ total_rows_added = Cardinality(QueuedRows)

\* A completed run on an absent sink with two batches, one written in chunks.
C14_Witness ==
    /\ pc = "summary" /\ ~sink_at_start.exists
    /\ Len(files_to_process) > BATCH_SIZE
    /\ Cardinality(batches) >= 2
    /\ \E b \in batches : Len(b) > CHUNK_SIZE

\* The queued units whose decoding gives rows.
Succeeding ==
    {k \in DOMAIN files_to_process :
        process_single_file(decoder, files_to_process[k]).result # <<>>}

\* C15: a run comes to an end other than its own only by a kill or a write that
\* died; and when it is at its summary, the batch loop has covered the queue,
\* every queued unit that gave rows was counted as processed and its rows are in
\* the sink, whichever units of its batch or of earlier batches gave none.
C15_FailureIsolation ==
    /\ pc = "aborted" => (killed \/ write_died)
    /\ pc = "summary"
       => /\ files_to_process # <<>> => batch_start >= Len(files_to_process)
          /\ files_processed = Cardinality(Succeeding)
          /\ \A k \in Succeeding :
                Range(CsvRows(process_single_file(decoder, files_to_process[k]).result))
                   \subseteq Range(sink.rows)

\* A run at its summary whose first batch had a unit that failed and one that
\* gave rows, and whose second batch gave rows.
C15_Witness ==
    /\ pc = "summary" /\ Len(files_to_process) = 3
    /\ decoder[files_to_process[1].filepath] = "raise"
    /\ Succeeding = {2, 3}
    /\ files_processed = 2

\* C16 (as claimed): at the summary every queued unit is counted once, as
\* processed or as failed (the counter files_missing).
C16_FailureAccounting ==
    pc \in {"summary", "done"}
    => files_processed + files_missing = Len(files_to_process)

\* C17 (as claimed): when the next batch is about to be submitted, every result
\* of the batch before has been collected, its rows are in the sink, and the
\* coordinator refers to none of its results any more.
C17_SynchronousBatches ==
    (pc = "submit" /\ batch_start > 0)
    => /\ running = {} /\ futures = {}
       /\ \A b \in batches : Range(CsvRows(b)) \subseteq Range(sink.rows)
       /\ batch_results = <<>> /\ df_batch = <<>>
       /\ HeldResults = {}

\* C18 (as claimed): the coordinator never holds more than BATCH_SIZE decoded
\* results, and holds none when a batch is about to be submitted.
C18_MemoryBound ==
    /\ Cardinality(HeldResults) <= BATCH_SIZE
    /\ Len(batch_results) <= BATCH_SIZE
    /\ pc = "submit"
       => (HeldResults = {} /\ batch_results = <<>> /\ df_batch = <<>>)

\* C19: the sink changes only in a step of the coordinator's write, and then no
\* worker of the batch is running and no result is left to collect; a worker's
\* step leaves the sink as it is.
C19_SingleWriter ==
    [][sink' # sink => (pc = "write" /\ running = {} /\ futures = {})]_vars

\* The coordinator is about to append to an existing sink the rows two workers
\* decoded.
C19_Witness ==
    /\ pc = "write" /\ sink.exists /\ running = {}
    /\ Cardinality(future_to_file) = 2 /\ Len(batch_results) = 2

\* What the planner gives for the sink the run found.
PlanOfRun ==
    BuildQueue(dir, get_existing_data_index(sink_at_start), years_available,
               variables_available)

\* C20: at the summary the queue, the counts and the set of lines of the sink are
\* what the directory, the decoder and the sink the run found determine,
\* whatever the order in which the workers finished; and every row written
\* carries the key of the queued unit whose result it is.
C20_CompletionOrderIndependence ==
    pc = "summary"
    => /\ files_to_process = PlanOfRun.files_to_process
       /\ files_skipped = PlanOfRun.files_skipped
       /\ files_missing = PlanOfRun.files_missing
       /\ files_processed = Cardinality(Succeeding)
       /\ Range(DataRows(sink)) = Range(DataRows(sink_at_start)) \cup QueuedRows
       /\ \A b \in batches : \A j \in DOMAIN b :
             \E k \in DOMAIN files_to_process :
                /\ KeyOf(files_to_process[k])
                      = <<b[j].year, b[j].month, b[j].variable_name>>
                /\ b[j] \in Range(process_single_file(decoder,
                                                     files_to_process[k]).result)

\* A run at its summary in which the unit submitted second was collected first.
C20_Witness ==
    /\ pc = "summary"
    /\ Len(files_to_process) >= 2
    /\ \E b \in batches :
          /\ Len(b) >= 2
          /\ <<b[1].year, b[1].month, b[1].variable_name>> = KeyOf(files_to_process[2])
          /\ <<b[Len(b)].year, b[Len(b)].month, b[Len(b)].variable_name>>
                = KeyOf(files_to_process[1])

\* The coordinate set the claims name
CoordinateSet == Range(potential_coordinate_columns)

\* C21 (coordinate columns are never data): whichever script transforms a
\* decoded table, no column it melts is one of the coordinate columns latitude,
\* longitude, time, step, valid_time, number, surface, heightAboveGround,
\* isobaricInhPa, and no row it returns has one of them as its raw field name.
C21_CoordinateColumnsNeverData ==
    \A s \in Scripts :
        /\ Range(df_long[s].value_vars) \cap CoordinateSet = {}
        /\ \A k \in DOMAIN df_long[s].rows :
              df_long[s].rows[k].grib_variable_name \notin CoordinateSet

\* The row of the decoded table a returned row was melted from (the model's
\* tables have a latitude of their own in every row)
SourceRow(r) ==
    df_decoded.rows[CHOOSE k \in DOMAIN df_decoded.rows :
                        df_decoded.rows[k]["latitude"] = r.latitude]

\* C22 (timestamp precedence): in every table a script returns the timestamp
\* column is named time, and each row carries in it the valid_time of the row
\* it was melted from when the decoded table has a valid_time column, and that
\* row's time when it has none.
C22_TimestampPrecedence ==
    \A s \in Scripts :
        \A k \in DOMAIN df_long[s].rows :
            LET r == df_long[s].rows[k]
            IN  /\ r.time_name = "time"
                /\ r.time = IF "valid_time" \in Range(df_decoded.columns)
                            THEN SourceRow(r)["valid_time"]
                            ELSE SourceRow(r)["time"]

\* The data columns of the decoded table
DataColumns == SelectSeq(df_decoded.columns, LAMBDA c : c \notin CoordinateSet)

\* C23 (no missing value reaches the sink): every row of a table a script
\* returns has a number as its value, never a missing value; and the table
\* has one row for each row and data column of the decoded table, less the
\* rows the script reported that it removed.
C23_NoMissingValues ==
    \A s \in Scripts :
        df_long[s].status = "table" =>
            /\ \A k \in DOMAIN df_long[s].rows :
                  df_long[s].rows[k].value.kind = "num"
            /\ Len(df_long[s].rows) =
                  Len(df_decoded.rows) * Len(DataColumns) - df_long[s].removed

\* The key the planner looks up in the index for a unit
IndexKey(key) == <<key[1], key[2], PyStr(key[3])>>

\* C24 (key columns are constant per unit): every row returned for a queued
\* unit carries that unit's variable identifier, year and month, and so does
\* every row collected for the batch and every row of the batch being written;
\* and when a run that found a readable sink, or none, has come to its summary,
\* the keys read back from the sink are the keys that were in it before
\* together with the keys of the units whose rows the run wrote.
C24_KeyColumnsConstant ==
    LET batch == Range(BatchFiles(files_to_process, batch_start))
    IN  /\ \A u \in Range(files_to_process) :
              KeysOfRows(FutureResult(u).result) \subseteq {KeyOf(u)}
        /\ \A k \in DOMAIN batch_results :
              \E u \in batch : KeysOfRows(batch_results[k]) = {KeyOf(u)}
        /\ KeysOfRows(df_batch) \subseteq {KeyOf(u) : u \in batch}
        /\ Running => committed \subseteq {KeyOf(u) : u \in Range(files_to_process)}
        /\ (pc = "summary" /\ ~Unreadable(sink_at_start))
           => get_existing_data_index(sink)
                 = get_existing_data_index(sink_at_start)
                      \cup {IndexKey(key) : key \in committed}

\* C25 (metadata is only a hint): the monthly run has come to every month
\* before its loop position; a month it skipped, in main or at the start of
\* process_month, had an output file of more than 1024 bytes when the run came
\* to it; and a month that was flagged as processed while its output file was
\* missing or no larger than 1024 bytes was processed again in this run.
C25_MetadataOnlyAHint ==
    pc \in {"monthly loop", "monthly recent", "monthly summary", "monthly done"}
    => /\ DOMAIN handled
             = {MonthQueue(data_by_month)[j] :
                   j \in {i \in DOMAIN MonthQueue(data_by_month) : i < month_i}}
       /\ \A k \in DOMAIN handled :
             /\ handled[k].did \in {"skipped", "already processed"}
                => handled[k].output_size > MIN_FILE_SIZE
             /\ (handled[k].flagged /\ handled[k].output_size <= MIN_FILE_SIZE)
                => handled[k].did \in {"saved", "no data"}

\* A second run skipped one flagged month whose file was there and wrote again
\* the file of another flagged month, which had been deleted or truncated.
C25_Witness ==
    /\ run = 2 /\ pc = "monthly done"
    /\ \E k \in DOMAIN handled :
          handled[k].flagged /\ handled[k].did = "skipped"
    /\ \E k \in DOMAIN handled :
          /\ handled[k].flagged /\ handled[k].output_size <= MIN_FILE_SIZE
          /\ handled[k].did = "saved"

\* The months for which process_month returned success in this run
SucceededMonths ==
    {k \in DOMAIN handled : handled[k].did \in {"saved", "already processed"}}

\* Some month of this run gave no data, or some variable file of a month the
\* run came to did not decode
DecodeFailed ==
    \E k \in DOMAIN handled :
        /\ handled[k].did \in {"saved", "no data"}
        /\ \E v \in DOMAIN data_by_month[k].variables :
              decoder[data_by_month[k].variables[v]] # "rows"

\* C26 (metadata survives unit failures): a monthly run in which a month or a
\* variable file failed to decode does not end before its summary; and once
\* the run is past its loop and the metadata write, the persisted
\* processed_months holds every month listed before the run and every month
\* that succeeded in it.
C26_MetadataSurvivesFailures ==
    /\ DecodeFailed => pc # "monthly crashed"
    /\ (DecodeFailed /\ pc \in {"monthly recent", "monthly summary", "monthly done",
                                "monthly crashed"})
       => /\ metadata_file.exists
          /\ metadata_at_start \cup SucceededMonths
                \subseteq metadata_file.processed_months

\* Queue entry a comes before queue entry b: by year, then by variable as
\* Python orders str, then by month
Before(a, b) ==
    \/ a.year < b.year
    \/ a.year = b.year /\ LexLess(a.variable, b.variable)
    \/ a.year = b.year /\ a.variable = b.variable /\ a.month < b.month

\* C27 (deterministic plan order): the queue the planner built is the queue it
\* builds from the same directory and sink for every order in which the
\* directory listing can return the files, and its entries are in ascending
\* order of year, then variable, then month.
C27_DeterministicPlanOrder ==
    pc \in {"submit", "summary"}
    => /\ \A listing \in Listings(Globbed(dir)) :
             files_to_process = QueueOfListing(dir, sink, listing)
       /\ \A i, j \in DOMAIN files_to_process :
             i < j => Before(files_to_process[i], files_to_process[j])

\* A queue of three units: the second differs from the first in its variable
\* and has an earlier month, the third is of a later year.
C27_Witness ==
    /\ pc = "submit" /\ Len(files_to_process) = 3
    /\ files_to_process[1].year = files_to_process[2].year
    /\ files_to_process[1].variable # files_to_process[2].variable
    /\ files_to_process[1].month > files_to_process[2].month
    /\ files_to_process[2].year < files_to_process[3].year

\* The key a file name parses to
ParsedKey(f) == <<ParseName(f).year, ParseName(f).month, ParseName(f).variable>>

\* C28 (one unit per key per run): no two entries of the queue the planner
\* built have the same (year, month, variable), and no entry has its key in
\* the existing-key set of the run, whatever names the directory holds.
C28_OneUnitPerKey ==
    pc \in {"submit", "summary"}
    => /\ \A i, j \in DOMAIN files_to_process :
             i # j => KeyOf(files_to_process[i]) # KeyOf(files_to_process[j])
       /\ \A i \in DOMAIN files_to_process :
             IndexKey(KeyOf(files_to_process[i])) \notin existing_data

\* The directory holds two names that parse to one key, and the key is queued;
\* another key of the directory is in the existing-key set.
C28_Witness ==
    /\ pc = "submit"
    /\ \E f, g \in DOMAIN dir :
          /\ f # g /\ ParsedKey(f) = ParsedKey(g)
          /\ \E i \in DOMAIN files_to_process : KeyOf(files_to_process[i]) = ParsedKey(f)
    /\ \E f \in DOMAIN dir : IndexKey(ParsedKey(f)) \in existing_data

\* The sink after each of the tables q is written to it by one call of
\* append_to_output_file, in this order
RECURSIVE UnsplitWrites(_, _)
UnsplitWrites(s, q) ==
    IF q = <<>> THEN s
    ELSE UnsplitWrites(append_to_output_file(s, Head(q)), Tail(q))

RECURSIVE TotalRows(_)
TotalRows(q) == IF q = <<>> THEN 0 ELSE Len(Head(q)) + TotalRows(Tail(q))

\* C29 (the chunk sub-split is a partition): while a batch of more than
\* CHUNK_SIZE rows is being written, the rows written so far are its first
\* chunk_start rows, in order, at the end of the sink, and the chunk that is
\* next is the slice that follows them, of at most CHUNK_SIZE rows; and when
\* the run has come to its summary the sink is what one unsplit write of each
\* batch gives, and total_rows_added is the number of rows of the batches.
C29_ChunkPartition ==
    /\ (pc = "write" /\ Len(df_batch) > CHUNK_SIZE)
       => /\ chunk_start < Len(df_batch)
          /\ Len(DataRows(sink)) >= chunk_start
          /\ SubSeq(DataRows(sink), Len(DataRows(sink)) - chunk_start + 1,
                    Len(DataRows(sink)))
                = CsvRows(SubSeq(df_batch, 1, chunk_start))
          /\ Len(NextWrite) \in 1..CHUNK_SIZE
          /\ IsPrefix(SubSeq(df_batch, 1, chunk_start) \o NextWrite, df_batch)
          /\ total_rows_added >= chunk_start
    /\ pc = "summary"
       => \E q \in Listings(batches) :
             /\ sink = UnsplitWrites(sink_at_start, q)
             /\ total_rows_added = TotalRows(q)

\* A run that wrote a batch of more than CHUNK_SIZE rows to a sink that was
\* there already has come to its summary.
C29_Witness ==
    /\ pc = "summary" /\ sink_at_start.exists
    /\ \E b \in batches : Len(b) > CHUNK_SIZE
    /\ Len(sink.rows) > Len(sink_at_start.rows) + CHUNK_SIZE


\* The unit of a file is in the queue of the current run.
Queued(filepath) ==
    \E k \in DOMAIN files_to_process : files_to_process[k].filepath = filepath

\* C30 (failed units are retried): a unit that was queued and whose file did
\* not decode has no row in what its run collected, combined or committed, and
\* its key is in the index of the sink only if it was there when the run
\* started; every later run whose plan is made has it in its queue again while
\* its file is there, unless the file has decoded since and its key is in the
\* index that run read; when a later run that queued it comes to its summary
\* with the file decoding, all its rows are in the sink, and they are still
\* there in every run after one that committed it and ended normally.
C30_FailedUnitsRetried ==
    \A x \in failed :
       /\ (x.run = run /\ Running)
          => /\ x.key \notin committed
             /\ x.key \notin KeysOfRows(df_batch)
             /\ \A k \in DOMAIN batch_results :
                   x.key \notin KeysOfRows(batch_results[k])
             /\ IndexKey(x.key) \in get_existing_data_index(sink)
                   => IndexKey(x.key) \in get_existing_data_index(sink_at_start)
       /\ (x.run < run /\ PlanDone /\ check_file_exists(dir, x.filepath))
          => \/ Queued(x.filepath)
             \/ /\ decoder[x.filepath] = "rows"
                /\ AlreadyIngested(x.key, existing_data)
       /\ (x.run < run /\ pc = "summary" /\ Queued(x.filepath)
             /\ decoder[x.filepath] = "rows")
          => UnitRows(x.filepath) \subseteq Range(DataRows(sink))
       /\ (x.run < run - 1 /\ prev.outcome = "done" /\ x.key \in prev.committed)
          => UnitRows(x.filepath) \subseteq Range(DataRows(sink))

\* The second run has come to its summary: a unit that gave no rows in the
\* first run, while other units were written, was queued again, its file
\* decodes now, and its rows are in the sink.
C30_Witness ==
    /\ run = 2 /\ pc = "summary" /\ prev.committed # {}
    /\ \E x \in failed :
          /\ x.run = 1 /\ Queued(x.filepath) /\ decoder[x.filepath] = "rows"
          /\ ~AlreadyIngested(x.key, existing_data)
          /\ x.key \in committed
          /\ UnitRows(x.filepath) \subseteq Range(DataRows(sink))

\* The variables of a month that are in the catalog with a file of valid size
ValidVariables(month_key) ==
    {v \in DOMAIN data_by_month[month_key].variables :
        check_file_exists(dir, data_by_month[month_key].variables[v])}

\* C31 (monthly completeness): while a monthly run is in its loop or after it,
\* every month it skipped as already processed, in main or in process_month,
\* has an output file with rows of every variable whose file is in the catalog
\* with a valid size.
C31_MonthlyCompleteness ==
    pc \in {"monthly loop", "monthly recent", "monthly summary"}
    => \A k \in DOMAIN handled :
          handled[k].did \in {"skipped", "already processed"}
          => /\ k \in DOMAIN outputs
             /\ ValidVariables(k) \subseteq outputs[k].variables

\* C32 (monthly interrupted write): a month whose output write the previous
\* run died in is not skipped by the run that comes to it, in main or in
\* process_month; it is processed again, and when its files give rows the
\* output file is written anew, readable, with every variable that gives rows.
C32_InterruptedWriteRedone ==
    pc \in {"monthly loop", "monthly recent", "monthly summary"}
    => \A x \in interrupted :
          (x.run = run - 1 /\ x.month \in DOMAIN handled)
          => /\ handled[x.month].did \in {"saved", "no data"}
             /\ handled[x.month].did = "saved"
                => /\ x.month \in DOMAIN outputs
                   /\ outputs[x.month].readable
                   /\ outputs[x.month].variables
                         = VariablesWithData(dir, decoder, data_by_month[x.month])

\* C33 (no stale flags persist): when a monthly run has come to its summary,
\* every month in the processed_months of the metadata file has an output
\* file larger than MIN_FILE_SIZE bytes.
C33_NoStaleFlags ==
    pc = "monthly summary"
    => /\ metadata_file.exists
       /\ \A k \in metadata_file.processed_months :
             /\ k \in DOMAIN outputs
             /\ outputs[k].size > MIN_FILE_SIZE

\* The key of a source file is in the index of the sink.
KeyInSink(filepath) ==
    IndexKey(<<ParseName(filepath).year, ParseName(filepath).month,
               ParseName(filepath).variable>>) \in get_existing_data_index(sink)

\* C34 (ingested files are complete downloads): every file in the queue of a
\* pipeline run is a file the download script skips as already downloaded;
\* and no step replaces a source file whose key is in the sink: the file keeps
\* its size and its content.
C34_IngestedFilesComplete ==
    /\ [](\A u \in Range(files_to_process) : download_skips(dir, u.filepath))
    /\ [][\A f \in DOMAIN dir :
             KeyInSink(f) => /\ f \in DOMAIN dir'
                             /\ dir'[f] = dir[f]
                             /\ decoder'[f] = decoder[f]]_vars

\* The keys of the data rows of a sink, and the number of its header rows
KeysOfSink(s) ==
    {<<r.year, r.month, r.variable_name>> : r \in Range(DataRows(s))}

HeaderRows(s) == Len(SelectSeq(s.rows, LAMBDA r : r.kind = "header"))

\* C35 (sequential and parallel consolidators agree): when both scripts have
\* run on the same directory, the same decoded tables and a sink of the same
\* content, either both stopped with exit(1), or both came to their summary
\* with the same keys in the sink, the same number of header rows, and the
\* same files_processed and files_skipped.
C35_ConsolidatorsAgree ==
    (pc \in {"done", "exit1"} /\ seq.pc \in {"summary", "exit1"})
    => /\ (pc = "exit1") <=> (seq.pc = "exit1")
       /\ KeysOfSink(sink) = KeysOfSink(seq.sink)
       /\ HeaderRows(sink) = HeaderRows(seq.sink)
       /\ files_processed = seq.files_processed
       /\ files_skipped = seq.files_skipped

\* C36 (overlapping runs): when two processes of the long-format pipeline
\* that ran at the same time on one directory and one sink have both ended,
\* no data row of the sink is there twice, and a sink that exists has exactly
\* one header row.
C36_OverlappingRuns ==
    (pc \in {"done", "exit1"} /\ other.pc \in {"done", "exit1"})
    => /\ \A r \in Range(DataRows(sink)) : Occurrences(r, sink.rows) = 1
       /\ sink.exists => HeaderRows(sink) = 1

====
